---- MODULE Spec2Model ----
(***************************************************************************)
(* A state-machine model of the real-time synchronisation layer of the     *)
(* c4c_raffle server: the TTL cache (src/cache/index.js), the SSE hub      *)
(* (src/sse/index.js) and the debounced, single-flight database save       *)
(* (the db module, src/unnamed/part_000 lines 97-428).                     *)
(*                                                                         *)
(* The three components share no state, so each has its own next-state     *)
(* relation and specification (SpecCache, SpecSSE, SpecDb); the variables  *)
(* of the other components stay at their initial values.  The route        *)
(* handlers of the server (src/db/schema.sql) call all three; they are     *)
(* modelled turn by turn (SpecServer, SpecHandlers, SpecObserve).          *)
(***************************************************************************)
EXTENDS Integers, Sequences, FiniteSets, TLC

VARIABLES
    \* ---- the clock (Date.now(), in milliseconds) ----
    now,            \* current time
    \* ---- DataCache ----
    cache,          \* this.cache: Map key -> {data, version, expiresAt, cachedAt}
    versions,       \* this.versions: Map key -> version
    hist,           \* per key: the last set()/invalidate() as the caller saw it
    sets,           \* number of set() calls so far (bounds the exploration)
    shadow,         \* this.cache as it would be had cleanup() never run
    \* ---- SSEManager ----
    clients,        \* this.clients: the Set of live responses, in insertion order
    heartbeatInterval, \* this.heartbeatInterval: a timer id, or 0 for null
    timers,         \* the interval timers that are armed (setInterval/clearInterval)
    conn,           \* per response object: what was written to it, its handlers
    sseLast,        \* the SSEManager call that ran last, and what it did
    sseOps,         \* number of frames sent so far (bounds the exploration)
    \* ---- the db module (src/unnamed/part_000 lines 97-428) ----
    db,             \* the sql.js handle: "null" or "open"
    mem,            \* the in-memory database: how many mutations it contains
    saveTimeout,    \* the handle of the last debounce timer, or 0 for null
    timeouts,       \* the armed setTimeout timers: records [id, due]
    isWriting,      \* the write lock
    pendingWrite,   \* a save was requested while the lock was held
    writers,        \* the saveDatabase() calls suspended at an await: [pc, buf]
    immediates,     \* setImmediate callbacks that are queued
    files,          \* the file system: DB_PATH ("db") and DB_PATH + '.tmp' ("tmp")
    exited,         \* "no" while the process runs, else how it ended
    dbLast,         \* the step of the db module that ran last
    calls,          \* scheduleSave() calls so far
    lastCallAt,     \* the time of the last scheduleSave() call
    bursts,         \* groups of scheduleSave() calls less than a window apart
    edgeGap,        \* some call came exactly one window after the previous one
    timerFires,     \* debounce timer callbacks run so far
    lastFire,       \* the last timer callback: when it ran, and the call before it
    flushes,        \* physical writes started so far
    coalesced,      \* saveDatabase() calls that found the lock held
    pendingDone,    \* writes that finished with pendingWrite set
    followUps,      \* writes started by a setImmediate callback
    elapsed,        \* number of free clock steps taken (bounds the exploration)
    dbLog,          \* the database after 0, 1, 2, ... mutations: dbLog[mem + 1] is in memory
    burstFrom,      \* how many mutations came before the current burst
    ioFailed,       \* some file operation of saveDatabase() has failed
    \* ---- the request handlers and callbacks of the server ----
    rows,           \* per domain: how many statements have changed its rows
    reqs,           \* the mutation requests: where each handler is, what it did
    turn,           \* the handler whose synchronous section is running, or 0
    lastTurn,       \* the read, health check or sweep that ran last, and its answer
    genAt,          \* per domain: the rows value at each bump of its counter
    \* ---- the process ----
    restarts,       \* how often the server was started again after it ended
    \* ---- authentication (src/db/schema.sql lines 408-463) ----
    users,          \* the users table: the password_hash of each username
    authCache,      \* authCache: the Map in insertion order, [key, expiresAt]
    auths,          \* the login and change-password requests in progress
    authLast        \* the authenticate() call that returned last, and its answer

cacheVars == <<cache, versions, hist, sets, shadow>>
clockVars == <<now>>
sseVars == <<clients, heartbeatInterval, timers, conn, sseLast, sseOps>>
dbVars == <<db, mem, saveTimeout, timeouts, isWriting, pendingWrite, writers,
            immediates, files, exited, dbLast, calls, lastCallAt, bursts,
            edgeGap, timerFires, lastFire, flushes, coalesced, pendingDone,
            followUps, elapsed, dbLog, burstFrom, ioFailed>>

reqVars == <<rows, reqs, turn, lastTurn, genAt>>
authVars == <<users, authCache, auths, authLast>>

\* Each component leaves the others alone.
cacheOnly == UNCHANGED <<sseVars, dbVars, reqVars, restarts, authVars>>
sseOnly == UNCHANGED <<clockVars, cacheVars, dbVars, reqVars, restarts, authVars>>
dbOnly == UNCHANGED <<cacheVars, sseVars, reqVars, restarts, authVars>>
vars == <<now, cache, versions, hist, sets, shadow,
          clients, heartbeatInterval, timers, conn, sseLast, sseOps,
          db, mem, saveTimeout, timeouts, isWriting, pendingWrite, writers,
          immediates, files, exited, dbLast, calls, lastCallAt, bursts,
          edgeGap, timerFires, lastFire, flushes, coalesced, pendingDone,
          followUps, elapsed, dbLog, burstFrom, ioFailed,
          rows, reqs, turn, lastTurn, genAt,
          restarts, users, authCache, auths, authLast>>

(***************************************************************************)
(* Bounds of the exploration.                                              *)
(***************************************************************************)
MaxSets == 2            \* set() calls explored
NumConns == 3           \* connection attempts explored
MaxSseOps == 2          \* broadcasts, heartbeats and single sends explored
MaxCalls == 3           \* scheduleSave() calls explored
MaxElapsed == 2         \* free clock steps explored in the db module
MaxReqs == 1            \* mutation requests explored
MaxTokenLen == 2        \* characters of an If-None-Match header explored
MaxAuthReqs == 2        \* login and change-password requests explored
MaxRestarts == 1        \* starts of the server after it ended explored

(***************************************************************************)
(* Small helpers for JavaScript Maps, modelled as functions whose domain   *)
(* is the set of keys present.                                             *)
(***************************************************************************)
EmptyMap == [x \in {} |-> 0]
MapHas(m, k) == k \in DOMAIN m
MapSet(m, k, v) == [x \in (DOMAIN m) \cup {k} |-> IF x = k THEN v ELSE m[x]]
MapDelete(m, k) == [x \in (DOMAIN m) \ {k} |-> m[x]]

(***************************************************************************)
(* DataCache (src/cache/index.js)                                          *)
(***************************************************************************)
Keys == {"raffles", "rules", "sponsors", "misc"}
\* The versions a caller tags a payload with: a lower and a higher one
Versions == {1, 2}

\* The payload is opaque to the cache: each set() call stores a payload of its
\* own, so that an old payload is never mistaken for a new one.
Payloads == {sets + 1}

\* this.TTL, the per-key table of the constructor
TTL == [raffles |-> 30000, rules |-> 300000, sponsors |-> 300000]
DefaultTTL == 5000

\* const ttl = this.TTL[key] || 5000
ttl(key) == IF key \in DOMAIN TTL THEN TTL[key] ELSE DefaultTTL

\* The clock may move between the two Date.now() reads of set().
ClockSkews == {0, 1}

\* Date.now() > entry.expiresAt
isExpired_ge(entry, t) == t >= entry.expiresAt
isExpired(entry, t) == t > entry.expiresAt

\* Return values: null, a payload, {data, version}, a number
RetNull == [kind |-> "null"]
RetData(p) == [kind |-> "data", data |-> p]
RetEntry(p, v) == [kind |-> "entry", data |-> p, version |-> v]
RetNumber(n) == [kind |-> "number", value |-> n]

\* What a caller knows of a key: never set, set (with what and when), or
\* invalidated since (only the time of the last set is kept).
NeverSet == [state |-> "never", data |-> 0, version |-> 0, t0 |-> 0]
Invalidated(h) ==
    IF h.state = "never" THEN h
    ELSE [state |-> "invalidated", data |-> 0, version |-> 0, t0 |-> h.t0]

\* Time passes between two calls: until the entry last set for a key is one
\* millisecond short of its expiry, at it, or one millisecond past it.
ExpiryOffsets == {-1, 0, 1}

wait(key, off) ==
    /\ hist[key].state # "never"
    /\ hist[key].t0 + ttl(key) + off > now
    /\ now' = hist[key].t0 + ttl(key) + off
    /\ UNCHANGED cacheVars
    /\ cacheOnly

\* get(key), the value returned: null if not cached or expired
get_ret(key) ==
    IF ~MapHas(cache, key) THEN RetNull
    ELSE IF isExpired(cache[key], now) THEN RetNull
    ELSE RetData(cache[key].data)

\* get(key), the effect: an expired entry is deleted
get_cache(key) ==
    /\ cache' = IF MapHas(cache, key) /\ isExpired(cache[key], now)
                  THEN MapDelete(cache, key) ELSE cache
    /\ shadow' = IF MapHas(shadow, key) /\ isExpired(shadow[key], now)
                   THEN MapDelete(shadow, key) ELSE shadow
    /\ UNCHANGED <<versions, hist, sets, now>>

\* get(key), called on its own
get(key) ==
    /\ get_cache(key)
    /\ cacheOnly

\* getWithVersion(key), the value returned: {data, version} or null
getWithVersion_ret(key) ==
    IF ~MapHas(cache, key) THEN RetNull
    ELSE IF isExpired(cache[key], now) THEN RetNull
    ELSE RetEntry(cache[key].data, cache[key].version)

\* getWithVersion(key), the effect: an expired entry is deleted
getWithVersion(key) ==
    /\ cache' = IF MapHas(cache, key) /\ isExpired(cache[key], now)
                  THEN MapDelete(cache, key) ELSE cache
    /\ shadow' = IF MapHas(shadow, key) /\ isExpired(shadow[key], now)
                   THEN MapDelete(shadow, key) ELSE shadow
    /\ UNCHANGED <<versions, hist, sets, now>>
    /\ cacheOnly

\* set(key, data, version) keeping an entry that has a higher version
\* (a faulty variant)
set_cache_keepNewer(key, data, version, skew) ==
    /\ sets' = sets + 1
    /\ cache' = IF MapHas(cache, key) /\ cache[key].version > version
                  THEN cache
                  ELSE MapSet(cache, key, [data |-> data,
                                           version |-> version,
                                           expiresAt |-> now + ttl(key),
                                           cachedAt |-> now + skew])
    /\ shadow' = MapSet(shadow, key, [data |-> data,
                                      version |-> version,
                                      expiresAt |-> now + ttl(key),
                                      cachedAt |-> now + skew])
    /\ versions' = MapSet(versions, key, version)
    /\ now' = now + skew
    /\ hist' = [hist EXCEPT ![key] = [state |-> "set", data |-> data,
                                      version |-> version, t0 |-> now]]

\* set(key, data, version): expiresAt is computed from the first clock read,
\* cachedAt from the second one, skew milliseconds later.
set_cache(key, data, version, skew) ==
    /\ sets' = sets + 1
    /\ cache' = MapSet(cache, key, [data |-> data,
                                    version |-> version,
                                    expiresAt |-> now + ttl(key),
                                    cachedAt |-> now + skew])
    /\ shadow' = MapSet(shadow, key, [data |-> data,
                                      version |-> version,
                                      expiresAt |-> now + ttl(key),
                                      cachedAt |-> now + skew])
    /\ versions' = MapSet(versions, key, version)
    /\ now' = now + skew
    /\ hist' = [hist EXCEPT ![key] = [state |-> "set", data |-> data,
                                      version |-> version, t0 |-> now]]

\* set(key, data, version), called on its own
set(key, data, version, skew) ==
    /\ sets < MaxSets
    /\ set_cache(key, data, version, skew)
    /\ cacheOnly

\* getVersion(key), the value returned: this.versions.get(key) || 0
getVersion_ret(key) ==
    RetNumber(IF MapHas(versions, key) THEN versions[key] ELSE 0)

\* getVersion(key) has no effect
getVersion(key) ==
    /\ UNCHANGED <<cache, versions, hist, sets, shadow, now>>
    /\ cacheOnly

\* invalidate(key): only the versions entry is dropped (a faulty variant)
invalidate_keepEntry(key) ==
    /\ cache' = cache
    /\ shadow' = MapDelete(shadow, key)
    /\ versions' = MapDelete(versions, key)
    /\ hist' = [hist EXCEPT ![key] = Invalidated(hist[key])]
    /\ UNCHANGED <<sets, now>>
    /\ cacheOnly

\* invalidate(key) leaving the entry in this.cache (a faulty variant)
invalidate_cache_keepEntry(key) ==
    /\ cache' = cache
    /\ shadow' = MapDelete(shadow, key)
    /\ versions' = MapDelete(versions, key)
    /\ hist' = [hist EXCEPT ![key] = Invalidated(hist[key])]
    /\ UNCHANGED <<sets, now>>

\* invalidate(key)
invalidate_cache(key) ==
    /\ cache' = MapDelete(cache, key)
    /\ shadow' = MapDelete(shadow, key)
    /\ versions' = MapDelete(versions, key)
    /\ hist' = [hist EXCEPT ![key] = Invalidated(hist[key])]
    /\ UNCHANGED <<sets, now>>

\* invalidate(key), called on its own
invalidate(key) ==
    /\ invalidate_cache(key)
    /\ cacheOnly

\* invalidateAll()
invalidateAll ==
    /\ cache' = EmptyMap
    /\ shadow' = EmptyMap
    /\ versions' = EmptyMap
    /\ hist' = [k \in Keys |-> Invalidated(hist[k])]
    /\ UNCHANGED <<sets, now>>
    /\ cacheOnly

\* getStats(), the value returned
DataCache_getStats_ret ==
    [kind |-> "stats",
     validEntries |-> Cardinality({k \in DOMAIN cache : ~isExpired(cache[k], now)}),
     expiredEntries |-> Cardinality({k \in DOMAIN cache : isExpired(cache[k], now)}),
     totalEntries |-> Cardinality(DOMAIN cache),
     keys |-> DOMAIN cache]

\* getStats() deleting the expired entries it counts, as get() does
\* (a faulty variant)
DataCache_getStats_sweep ==
    /\ cache' = [k \in {x \in DOMAIN cache : ~isExpired(cache[x], now)} |-> cache[k]]
    /\ UNCHANGED <<versions, hist, sets, shadow, now>>

\* getStats() counts valid and expired entries and removes nothing
DataCache_getStats_cache ==
    /\ UNCHANGED <<cache, versions, hist, sets, shadow, now>>

\* getStats(), called on its own
DataCache_getStats ==
    /\ DataCache_getStats_cache
    /\ cacheOnly

\* cleanup() emptying the Map (a faulty variant)
cleanup_clear ==
    /\ cache' = EmptyMap
    /\ UNCHANGED <<versions, hist, sets, shadow, now>>

\* cleanup() deleting an entry already at the instant it expires
\* (a faulty variant)
cleanup_cache_atExpiry ==
    /\ cache' = [k \in {x \in DOMAIN cache : ~isExpired_ge(cache[x], now)} |-> cache[k]]
    /\ UNCHANGED <<versions, hist, sets, shadow, now>>

\* cleanup(): the periodic sweep deletes every expired entry
cleanup_cache ==
    /\ cache' = [k \in {x \in DOMAIN cache : ~isExpired(cache[x], now)} |-> cache[k]]
    /\ UNCHANGED <<versions, hist, sets, shadow, now>>

\* cleanup(), called on its own
cleanup ==
    /\ cleanup_cache
    /\ cacheOnly

InitCache ==
    /\ cache = EmptyMap
    /\ shadow = EmptyMap
    /\ versions = EmptyMap
    /\ hist = [k \in Keys |-> NeverSet]
    /\ sets = 0

(***************************************************************************)
(* SSEManager (src/sse/index.js)                                           *)
(***************************************************************************)
Conns == 1..NumConns

\* this.maxConnections (2000 in the source), scaled down so that the
\* connection attempts explored can exceed it
maxConnections == 2

\* The frames a response can be written: the stream headers, the
\* comment-only keepalive, and named events
NoData == [none |-> 0]
Headers == [event |-> "headers", data |-> NoData]
Keepalive == [event |-> ":", data |-> NoData]

\* `event: ${event}\ndata: ${JSON.stringify(data)}\n\n`
message(event, data) == [event |-> event, data |-> data]

\* A response object before its request arrives
NewConn == [state |-> "new", frames |-> <<>>, handlers |-> FALSE, ended |-> FALSE]

Range(seq) == {seq[i] : i \in 1..Len(seq)}

\* Set.delete(x), on the insertion-ordered Set
SetDelete(seq, x) == SelectSeq(seq, LAMBDA y : y # x)

\* What an SSEManager call did: the call, its target, its return value, the
\* live set it found, the clients it tried to write to (or to end) and the
\* clients whose write (or end) throws
NoCall == [op |-> "new", conn |-> 0, ret |-> "none",
           before |-> {}, attempted |-> {}, failed |-> {}]
Call(op, c, ret) == [NoCall EXCEPT !.op = op, !.conn = c, !.ret = ret,
                                   !.before = Range(clients)]

\* res.write(frame) succeeded on every response of ws
written(ws, frame) ==
    [c \in Conns |-> IF c \in ws
                       THEN [conn[c] EXCEPT !.frames = Append(@, frame)]
                       ELSE conn[c]]

\* The loop of broadcast/sendHeartbeatToAll with the try/catch around the
\* whole loop instead of around each write: the first throw ends it
\* (a faulty variant)
RECURSIVE writeLoop_abort(_, _)
writeLoop_abort(cs, throwing) ==
    IF cs = <<>> THEN [attempted |-> {}, failed |-> <<>>]
    ELSE IF Head(cs) \in throwing
           THEN [attempted |-> {Head(cs)}, failed |-> <<Head(cs)>>]
           ELSE LET rest == writeLoop_abort(Tail(cs), throwing)
                IN  [attempted |-> {Head(cs)} \cup rest.attempted,
                     failed |-> rest.failed]

\* for (const client of this.clients) { try { client.write(..) }
\*                                      catch { failedClients.push(client) } }
\* throwing: the clients whose write throws
RECURSIVE writeLoop(_, _)
writeLoop(cs, throwing) ==
    IF cs = <<>> THEN [attempted |-> {}, failed |-> <<>>]
    ELSE LET rest == writeLoop(Tail(cs), throwing)
         IN  [attempted |-> {Head(cs)} \cup rest.attempted,
              failed |-> IF Head(cs) \in throwing
                           THEN <<Head(cs)>> \o rest.failed
                           ELSE rest.failed]

\* the failed clients are collected and then left in the set (a faulty variant)
deleteAll_none(cs, failedClients) == cs

\* for (const client of failedClients) this.clients.delete(client)
RECURSIVE deleteAll(_, _)
deleteAll(cs, failedClients) ==
    IF failedClients = <<>> THEN cs
    ELSE deleteAll(SetDelete(cs, Head(failedClients)), Tail(failedClients))

\* a timer armed with setTimeout is gone once its callback has run
\* (not what startHeartbeat() arms)
afterTick_once(ts, h) == ts \ {h}

\* startHeartbeat() arms the timer with setInterval: it stays armed after
\* each run of its callback
afterTick(ts, h) == ts

\* sendHeartbeatToAll(): the callback of the heartbeat timer
sendHeartbeatToAll(throwing) ==
    /\ heartbeatInterval \in timers
    /\ sseOps < MaxSseOps
    /\ throwing \subseteq Range(clients)
    /\ LET r == writeLoop(clients, throwing)
       IN  /\ conn' = written(r.attempted \ Range(r.failed), Keepalive)
           /\ clients' = deleteAll(clients, r.failed)
           /\ sseLast' = [Call("sendHeartbeatToAll", 0, "none") EXCEPT
                             !.attempted = r.attempted,
                             !.failed = throwing]
    /\ sseOps' = sseOps + 1
    /\ timers' = afterTick(timers, heartbeatInterval)
    /\ UNCHANGED heartbeatInterval
    /\ sseOnly

\* if (this.clients.size >= this.maxConnections) return false
atCapacity_gt(n) == n > maxConnections
atCapacity(n) == n >= maxConnections

\* addClient(res) tracking the response and registering its listeners
\* before the handshake is written (a faulty variant)
addClient_trackFirst(res, fail) ==
    /\ conn[res].state = "new"
    /\ \A c \in Conns : c < res => conn[c].state # "new"
    /\ IF atCapacity(Len(clients))
         THEN /\ conn' = [conn EXCEPT ![res].state = "open"]
              /\ clients' = clients
              /\ sseLast' = Call("addClient", res, "false")
         ELSE /\ conn' = [conn EXCEPT ![res].state = "open",
                                      ![res].frames =
                                          IF fail = "writeHead" THEN <<>>
                                          ELSE IF fail = "write" THEN <<Headers>>
                                          ELSE <<Headers, Keepalive>>,
                                      ![res].handlers = TRUE]
              /\ clients' = Append(clients, res)
              /\ sseLast' = Call("addClient", res,
                                 IF fail = "none" THEN "true" ELSE "throw")
    /\ UNCHANGED <<heartbeatInterval, timers, sseOps>>
    /\ sseOnly

\* addClient(res); fail: the handshake call that throws, if any. Response
\* objects are interchangeable, so they arrive in the order of their numbers.
addClient(res, fail) ==
    /\ conn[res].state = "new"
    /\ \A c \in Conns : c < res => conn[c].state # "new"
    /\ IF atCapacity(Len(clients))
         THEN /\ conn' = [conn EXCEPT ![res].state = "open"]
              /\ clients' = clients
              /\ sseLast' = Call("addClient", res, "false")
         ELSE IF fail = "writeHead"
                THEN /\ conn' = [conn EXCEPT ![res].state = "open"]
                     /\ clients' = clients
                     /\ sseLast' = Call("addClient", res, "throw")
         ELSE IF fail = "write"
                THEN /\ conn' = [conn EXCEPT ![res].state = "open",
                                             ![res].frames = <<Headers>>]
                     /\ clients' = clients
                     /\ sseLast' = Call("addClient", res, "throw")
         ELSE /\ conn' = [conn EXCEPT ![res].state = "open",
                                      ![res].frames = <<Headers, Keepalive>>,
                                      ![res].handlers = TRUE]
              /\ clients' = Append(clients, res)
              /\ sseLast' = Call("addClient", res, "true")
    /\ UNCHANGED <<heartbeatInterval, timers, sseOps>>
    /\ sseOnly

\* the 'close' listener leaving the response in the set (a faulty variant)
onClose_keep(res) ==
    /\ conn[res].state = "open"
    /\ conn' = [conn EXCEPT ![res].state = "closed"]
    /\ clients' = clients
    /\ sseLast' = [NoCall EXCEPT !.op = "close", !.conn = res]
    /\ UNCHANGED <<heartbeatInterval, timers, sseOps>>
    /\ sseOnly

\* res.on('close', ...): the response's connection closes
onClose(res) ==
    /\ conn[res].state = "open"
    /\ conn' = [conn EXCEPT ![res].state = "closed"]
    /\ clients' = IF conn[res].handlers THEN SetDelete(clients, res) ELSE clients
    /\ sseLast' = [NoCall EXCEPT !.op = "close", !.conn = res]
    /\ UNCHANGED <<heartbeatInterval, timers, sseOps>>
    /\ sseOnly

\* res.on('error', ...): the response's connection fails. (The 'close' that
\* follows an 'error' deletes the same response again, which changes nothing;
\* it is not a step of its own.)
onError(res) ==
    /\ conn[res].state = "open"
    /\ conn' = [conn EXCEPT ![res].state = "closed"]
    /\ clients' = IF conn[res].handlers THEN SetDelete(clients, res) ELSE clients
    /\ sseLast' = [NoCall EXCEPT !.op = "error", !.conn = res]
    /\ UNCHANGED <<heartbeatInterval, timers, sseOps>>
    /\ sseOnly

\* broadcast(event, data); throwing: the clients whose write throws
broadcast_sse(event, data, throwing) ==
    /\ sseOps < MaxSseOps
    /\ throwing \subseteq Range(clients)
    /\ LET r == writeLoop(clients, throwing)
       IN  /\ conn' = written(r.attempted \ Range(r.failed), message(event, data))
           /\ clients' = deleteAll(clients, r.failed)
           /\ sseLast' = [Call("broadcast", 0, "none") EXCEPT
                             !.attempted = r.attempted,
                             !.failed = throwing]
    /\ sseOps' = sseOps + 1
    /\ UNCHANGED <<heartbeatInterval, timers>>

\* broadcast(event, data), called on its own
broadcast(event, data, throwing) ==
    /\ broadcast_sse(event, data, throwing)
    /\ sseOnly

\* the membership test left out (a faulty variant)
has_any(cs, x) == TRUE

\* this.clients.has(client)
has(cs, x) == x \in Range(cs)

\* sendToClient(client, event, data); throws: whether the write throws
sendToClient(client, event, data, throws) ==
    /\ sseOps < MaxSseOps
    /\ IF has(clients, client)
         THEN IF throws
                THEN /\ clients' = SetDelete(clients, client)
                     /\ conn' = conn
                     /\ sseLast' = [Call("sendToClient", client, "none") EXCEPT
                                       !.attempted = {client},
                                       !.failed = {client}]
                ELSE /\ clients' = clients
                     /\ conn' = written({client}, message(event, data))
                     /\ sseLast' = [Call("sendToClient", client, "none") EXCEPT
                                       !.attempted = {client}]
         ELSE /\ clients' = clients
              /\ conn' = conn
              /\ sseLast' = Call("sendToClient", client, "none")
    /\ sseOps' = sseOps + 1
    /\ UNCHANGED <<heartbeatInterval, timers>>
    /\ sseOnly

\* getClientCount()
getClientCount_ret == Len(clients)
getClientCount == UNCHANGED sseVars /\ sseOnly

\* isAtCapacity()
isAtCapacity_ret == atCapacity(Len(clients))
isAtCapacity == UNCHANGED sseVars /\ sseOnly

\* getStats() (the utilization string is left out)
SSEManager_getStats_ret ==
    [connected |-> Len(clients), maxConnections |-> maxConnections]
SSEManager_getStats == UNCHANGED sseVars /\ sseOnly

\* the timer left running (a faulty variant)
stopHeartbeat_keep == UNCHANGED <<timers, heartbeatInterval>>

\* stopHeartbeat(), as called by closeAll()
stopHeartbeat ==
    IF heartbeatInterval # 0
      THEN /\ timers' = timers \ {heartbeatInterval}
           /\ heartbeatInterval' = 0
      ELSE UNCHANGED <<timers, heartbeatInterval>>

\* closeAll(); throwing: the clients whose end() throws
closeAll(throwing) ==
    /\ throwing \subseteq Range(clients)
    /\ stopHeartbeat
    /\ conn' = [c \in Conns |->
                   IF c \in Range(clients) \ throwing
                     THEN [conn[c] EXCEPT !.ended = TRUE] ELSE conn[c]]
    /\ clients' = <<>>
    /\ sseLast' = [Call("closeAll", 0, "none") EXCEPT
                      !.attempted = Range(clients), !.failed = throwing]
    /\ UNCHANGED sseOps
    /\ sseOnly

\* new SSEManager(): no clients, and startHeartbeat() has armed timer 1
InitSSE ==
    /\ clients = <<>>
    /\ heartbeatInterval = 1
    /\ timers = {1}
    /\ conn = [c \in Conns |-> NewConn]
    /\ sseLast = NoCall
    /\ sseOps = 0

(***************************************************************************)
(* The db module (src/unnamed/part_000 lines 97-428): the in-memory sql.js *)
(* database and its debounced, single-flight save to DB_PATH.              *)
(*                                                                         *)
(* The in-memory database is identified by the number of mutations it      *)
(* contains; a file holds such a number, completely written or not.  The   *)
(* event loop is Node's: a timer callback runs when its delay has elapsed, *)
(* and a setImmediate callback runs before any timer callback.             *)
(***************************************************************************)
Window == 1000
Paths == {"db", "tmp"}
NoFile == [exists |-> FALSE, data |-> 0, complete |-> TRUE]
File(n) == [exists |-> TRUE, data |-> n, complete |-> TRUE]
Partial(n) == [exists |-> TRUE, data |-> n, complete |-> FALSE]

running == exited = "no"
SeqDelete(seq, i) == [j \in 1..(Len(seq) - 1) |-> IF j < i THEN seq[j] ELSE seq[j + 1]]
MinDue == CHOOSE d \in {t.due : t \in timeouts} : \A t \in timeouts : d <= t.due

\* clearTimeout(saveTimeout); a null or already-fired handle clears nothing
clearTimeout(handle) == {t \in timeouts : t.id # handle}

\* scheduleSave() with the clearTimeout left out
scheduleSave_noClear ==
    /\ timeouts' = timeouts \cup {[id |-> calls + 1, due |-> now + Window]}
    /\ saveTimeout' = calls + 1
    /\ calls' = calls + 1
    /\ lastCallAt' = now
    /\ bursts' = IF calls = 0 \/ now - lastCallAt > Window THEN bursts + 1 ELSE bursts
    /\ edgeGap' = (edgeGap \/ (calls > 0 /\ now - lastCallAt = Window))
    /\ burstFrom' = IF calls = 0 \/ now - lastCallAt > Window THEN mem ELSE burstFrom

\* scheduleSave() arming a timer only when none was ever armed
scheduleSave_once ==
    /\ timeouts' = IF saveTimeout # 0 THEN timeouts
                   ELSE timeouts \cup {[id |-> calls + 1, due |-> now + Window]}
    /\ saveTimeout' = IF saveTimeout # 0 THEN saveTimeout ELSE calls + 1
    /\ calls' = calls + 1
    /\ lastCallAt' = now
    /\ bursts' = IF calls = 0 \/ now - lastCallAt > Window THEN bursts + 1 ELSE bursts
    /\ edgeGap' = (edgeGap \/ (calls > 0 /\ now - lastCallAt = Window))
    /\ burstFrom' = IF calls = 0 \/ now - lastCallAt > Window THEN mem ELSE burstFrom

\* scheduleSave(): cancel the pending timer, arm a new one a window from now
scheduleSave ==
    /\ timeouts' = clearTimeout(saveTimeout) \cup {[id |-> calls + 1, due |-> now + Window]}
    /\ saveTimeout' = calls + 1
    /\ calls' = calls + 1
    /\ lastCallAt' = now
    /\ bursts' = IF calls = 0 \/ now - lastCallAt > Window THEN bursts + 1 ELSE bursts
    /\ edgeGap' = (edgeGap \/ (calls > 0 /\ now - lastCallAt = Window))
    /\ burstFrom' = IF calls = 0 \/ now - lastCallAt > Window THEN mem ELSE burstFrom

\* saveDatabase() without the write lock test
saveDatabase_noLock ==
    IF db = "null"
    THEN UNCHANGED <<isWriting, pendingWrite, writers, flushes, coalesced>>
    ELSE /\ isWriting' = TRUE
         /\ writers' = Append(writers, [pc |-> "mkdir", buf |-> mem])
         /\ flushes' = flushes + 1
         /\ UNCHANGED <<pendingWrite, coalesced>>

\* saveDatabase() up to its first await: nothing without a database; only the
\* pending flag while a write is in progress; else take the lock, export the
\* database and ask for the mkdir
saveDatabase ==
    IF db = "null"
    THEN UNCHANGED <<isWriting, pendingWrite, writers, flushes, coalesced>>
    ELSE IF isWriting
    THEN /\ pendingWrite' = TRUE
         /\ coalesced' = coalesced + 1
         /\ UNCHANGED <<isWriting, writers, flushes>>
    ELSE /\ isWriting' = TRUE
         /\ writers' = Append(writers, [pc |-> "mkdir", buf |-> mem])
         /\ flushes' = flushes + 1
         /\ UNCHANGED <<pendingWrite, coalesced>>

\* the finally block of saveDatabase() without the follow-up call
finally_noFollowUp(i) ==
    /\ isWriting' = FALSE
    /\ writers' = SeqDelete(writers, i)
    /\ pendingWrite' = FALSE
    /\ dbLast' = "done"
    /\ UNCHANGED <<immediates, pendingDone>>

\* the finally block of saveDatabase() with pendingWrite left set
finally_keepPending(i) ==
    /\ isWriting' = FALSE
    /\ writers' = SeqDelete(writers, i)
    /\ IF pendingWrite
       THEN /\ immediates' = immediates + 1
            /\ pendingDone' = pendingDone + 1
            /\ dbLast' = "donePending"
            /\ UNCHANGED pendingWrite
       ELSE /\ dbLast' = "done"
            /\ UNCHANGED <<pendingWrite, immediates, pendingDone>>

\* the finally block of saveDatabase(): release the lock and, if a save was
\* requested meanwhile, clear the flag and queue one more saveDatabase()
finally(i) ==
    /\ isWriting' = FALSE
    /\ writers' = SeqDelete(writers, i)
    /\ IF pendingWrite
       THEN /\ pendingWrite' = FALSE
            /\ immediates' = immediates + 1
            /\ pendingDone' = pendingDone + 1
            /\ dbLast' = "donePending"
       ELSE /\ dbLast' = "done"
            /\ UNCHANGED <<pendingWrite, immediates, pendingDone>>

\* the database contents and the call history, which no step of the save path changes
saveGhosts == <<calls, lastCallAt, bursts, edgeGap, burstFrom, dbLog>>
timerVars == <<saveTimeout, timeouts>>

\* initDb(): load DB_PATH if it holds a database, else create an empty one;
\* run the (idempotent) schema and schedule a save
initDb ==
    /\ running
    /\ db = "null"
    /\ calls = 0
    /\ db' = "open"
    /\ mem' = IF files["db"].exists /\ files["db"].complete THEN files["db"].data ELSE 0
    /\ scheduleSave
    /\ dbLast' = "initDb"
    /\ UNCHANGED <<now, isWriting, pendingWrite, writers, immediates, files, exited,
                   timerFires, lastFire, flushes, coalesced, pendingDone,
                   followUps, elapsed, dbLog, ioFailed>>
    /\ dbOnly

\* the data_versions table: one counter per domain (schema.sql inserts the
\* three rows with version 0)
Domains == {"raffles", "rules", "sponsors"}
NewVersions == [d \in Domains |-> 0]
\* the counters in a database file left by an earlier run
EarlierVersions == [d \in Domains |-> IF d = "raffles" THEN 2 ELSE 0]

\* the database in memory, and the one a file with data n holds
current == dbLog[mem + 1]
stored(file) == dbLog[file.data + 1]
dataVersions == current.ver
LogEntry(ver, key, ret) == [ver |-> ver, key |-> key, ret |-> ret]

\* run(sql, params), and the statements and transaction() built on it, for
\* a statement that leaves data_versions alone: change the in-memory
\* database, then scheduleSave()
run_db ==
    /\ mem' = mem + 1
    /\ dbLog' = Append(dbLog, LogEntry(dataVersions, "none", 0))
    /\ scheduleSave
    /\ dbLast' = "run"
    /\ UNCHANGED <<now, db, isWriting, pendingWrite, writers, immediates, files,
                   exited, timerFires, lastFire, flushes, coalesced, pendingDone,
                   followUps, elapsed, ioFailed>>

\* run(sql, params), called on its own
run ==
    /\ running
    /\ db = "open"
    /\ calls < MaxCalls
    /\ run_db
    /\ dbOnly

\* UPDATE data_versions SET version = version + 2 (a wrong step)
incrementVersion_by2(table, key) ==
    [d \in DOMAIN table |-> IF d = key THEN table[d] + 2 ELSE table[d]]

\* statements.incrementVersion: UPDATE data_versions SET version = version + 1
\* WHERE key = ?
incrementVersion(table, key) ==
    [d \in DOMAIN table |-> IF d = key THEN table[d] + 1 ELSE table[d]]

\* statements.getVersion.get(key)?.version || 0
getVersionRow(table, key) == IF key \in DOMAIN table THEN table[key] ELSE 0

\* bumpVersion(key): incrementVersion.run(...), which goes through run() and
\* so scheduleSave(); then read the counter back and return it.  No await
\* separates the two statements.
BumpKeys == Domains
bumpVersion_run(key) ==
    /\ mem' = mem + 1
    /\ LET table == incrementVersion(dataVersions, key)
       IN dbLog' = Append(dbLog, LogEntry(table, key, getVersionRow(table, key)))
    /\ scheduleSave
    /\ dbLast' = "bumpVersion"
    /\ UNCHANGED <<now, db, isWriting, pendingWrite, writers, immediates, files,
                   exited, timerFires, lastFire, flushes, coalesced, pendingDone,
                   followUps, elapsed, ioFailed>>

\* bumpVersion(key) while the database is open (the calls explored are bounded)
bumpVersion_db(key) ==
    /\ running
    /\ db = "open"
    /\ calls < MaxCalls
    /\ bumpVersion_run(key)

\* bumpVersion(key), called on its own
bumpVersion(key) ==
    /\ bumpVersion_db(key)
    /\ dbOnly

\* the debounce timer's callback: () => { saveDatabase(); }.  saveTimeout
\* keeps the handle of the timer that fired.
onTimeout ==
    /\ running
    /\ immediates = 0
    /\ \E t \in timeouts :
        /\ t.due <= now
        /\ timeouts' = timeouts \ {t}
    /\ saveDatabase
    /\ timerFires' = timerFires + 1
    /\ lastFire' = [at |-> now, callAt |-> lastCallAt]
    /\ dbLast' = "timeout"
    /\ UNCHANGED <<now, db, mem, saveTimeout, immediates, files, exited,
                   pendingDone, followUps, elapsed>>
    /\ UNCHANGED saveGhosts
    /\ UNCHANGED ioFailed
    /\ dbOnly

\* the setImmediate callback queued by the finally block: () => saveDatabase()
onImmediate ==
    /\ running
    /\ immediates > 0
    /\ immediates' = immediates - 1
    /\ saveDatabase
    /\ followUps' = IF db = "open" /\ ~isWriting THEN followUps + 1 ELSE followUps
    /\ dbLast' = "immediate"
    /\ UNCHANGED <<now, db, mem, files, exited, timerFires, lastFire,
                   pendingDone, elapsed>>
    /\ UNCHANGED timerVars
    /\ UNCHANGED saveGhosts
    /\ UNCHANGED ioFailed
    /\ dbOnly

\* a failed file operation that is not caught ends the process (the
\* promise of saveDatabase() rejects and nobody handles it)
swallowed_rethrown == "crashed"

\* what a failed file operation does to the process: nothing, for the
\* .catch(() => {}) after mkdir and the catch block log and go on
swallowed == exited

\* the file the buffer is written to: tempPath = DB_PATH + '.tmp'
writeTarget_direct == "db"
writeTarget == "tmp"

\* await mkdir(...).catch(() => {}) returns, done (ok) or failed with the
\* error dropped, and writeFile(tempPath, buffer) begins: the file is open
\* and incomplete
mkdirDone(i, ok) ==
    /\ running
    /\ i \in DOMAIN writers
    /\ writers[i].pc = "mkdir"
    /\ writers' = [writers EXCEPT ![i].pc = "writeFile"]
    /\ files' = [files EXCEPT ![writeTarget] = Partial(writers[i].buf)]
    /\ dbLast' = "mkdirDone"
    /\ UNCHANGED <<now, db, mem, isWriting, pendingWrite, immediates,
                   timerFires, lastFire, flushes, coalesced, pendingDone,
                   followUps, elapsed>>
    /\ UNCHANGED timerVars
    /\ UNCHANGED saveGhosts
    /\ ioFailed' = (ioFailed \/ ~ok)
    /\ exited' = IF ok THEN exited ELSE swallowed
    /\ dbOnly

\* await writeFile(...) returns.  ok: the file is complete and
\* rename(tempPath, DB_PATH) is asked for.  Not ok: it throws, the catch
\* block logs, and the finally block runs.
writeFileDone(i, ok) ==
    /\ running
    /\ i \in DOMAIN writers
    /\ writers[i].pc = "writeFile"
    /\ IF ok
       THEN /\ files' = [files EXCEPT ![writeTarget] = File(writers[i].buf)]
            /\ writers' = [writers EXCEPT ![i].pc = "rename"]
            /\ dbLast' = "writeFileDone"
            /\ UNCHANGED <<isWriting, pendingWrite, immediates, pendingDone>>
       ELSE /\ finally(i)
            /\ UNCHANGED files
    /\ UNCHANGED <<now, db, mem, timerFires, lastFire, flushes, coalesced,
                   followUps, elapsed>>
    /\ UNCHANGED timerVars
    /\ UNCHANGED saveGhosts
    /\ ioFailed' = (ioFailed \/ ~ok)
    /\ exited' = IF ok THEN exited ELSE swallowed
    /\ dbOnly

\* a rename that leaves the target as it was
renamed_lost(fs) == fs

\* rename(2): the target takes the source's content in one step, and the
\* source is gone; without a source it fails
renamed(fs) ==
    IF fs["tmp"].exists THEN [fs EXCEPT !["db"] = fs["tmp"], !["tmp"] = NoFile] ELSE fs

\* await rename(...) returns, done (ok) or thrown; then the finally block
renameDone(i, ok) ==
    /\ running
    /\ i \in DOMAIN writers
    /\ writers[i].pc = "rename"
    /\ files' = IF ok THEN renamed(files) ELSE files
    /\ finally(i)
    /\ UNCHANGED <<now, db, mem, timerFires, lastFire, flushes, coalesced,
                   followUps, elapsed>>
    /\ UNCHANGED timerVars
    /\ UNCHANGED saveGhosts
    /\ ioFailed' = (ioFailed \/ ~ok)
    /\ exited' = IF ok THEN exited ELSE swallowed
    /\ dbOnly

\* closeDb(): with a timer handle, clear the timer and call saveDatabase(),
\* which returns at its first await; then close and drop the database
closeDb ==
    /\ IF saveTimeout # 0
       THEN /\ timeouts' = clearTimeout(saveTimeout)
            /\ saveDatabase
       ELSE UNCHANGED <<timeouts, isWriting, pendingWrite, writers, flushes, coalesced>>
    /\ db' = "null"
    /\ UNCHANGED saveTimeout

\* the SIGINT and SIGTERM listeners: closeDb(); process.exit(0).  The 'exit'
\* listener then calls closeDb() again, which finds db null and clears a
\* timer that is already cleared; the process ends with whatever
\* saveDatabase() calls are still suspended.  closeDb() has no other caller.
ExitSignals == {"SIGINT", "SIGTERM"}
onSignal(sig) ==
    /\ running
    /\ closeDb
    /\ exited' = sig
    /\ dbLast' = "closeDb"
    /\ UNCHANGED <<now, mem, immediates, files, timerFires, lastFire, pendingDone,
                   followUps, elapsed>>
    /\ UNCHANGED saveGhosts
    /\ UNCHANGED ioFailed
    /\ dbOnly

\* the process is killed or the machine crashes: no listener runs
kill ==
    /\ running
    /\ exited' = "killed"
    /\ dbLast' = "kill"
    /\ UNCHANGED <<now, db, mem, isWriting, pendingWrite, writers, immediates, files,
                   timerFires, lastFire, flushes, coalesced, pendingDone,
                   followUps, elapsed>>
    /\ UNCHANGED timerVars
    /\ UNCHANGED saveGhosts
    /\ UNCHANGED ioFailed
    /\ dbOnly

\* a file operation that was in flight when the process ended may have been
\* carried out all the same; its continuation never runs
ioOutlives(i) ==
    /\ ~running
    /\ i \in DOMAIN writers
    /\ writers[i].pc \in {"writeFile", "rename"}
    /\ files' = IF writers[i].pc = "rename" THEN renamed(files)
                ELSE [files EXCEPT ![writeTarget] = File(writers[i].buf)]
    /\ writers' = SeqDelete(writers, i)
    /\ UNCHANGED <<now, db, mem, isWriting, pendingWrite, immediates, exited, dbLast,
                   timerFires, lastFire, flushes, coalesced, pendingDone,
                   followUps, elapsed>>
    /\ UNCHANGED timerVars
    /\ UNCHANGED saveGhosts
    /\ UNCHANGED ioFailed
    /\ dbOnly

\* time passes, but not past the delay of an armed timer, and not while a
\* setImmediate callback is due
ElapseSteps == {1, 500}
elapse(d) ==
    /\ running
    /\ db = "open"
    /\ immediates = 0
    /\ elapsed < MaxElapsed
    /\ \A t \in timeouts : now + d <= t.due
    /\ now' = now + d
    /\ elapsed' = elapsed + 1
    /\ UNCHANGED <<db, mem, isWriting, pendingWrite, writers, immediates, files,
                   exited, dbLast, timerFires, lastFire, flushes, coalesced,
                   pendingDone, followUps>>
    /\ UNCHANGED timerVars
    /\ UNCHANGED saveGhosts
    /\ UNCHANGED ioFailed
    /\ dbOnly

\* time passes until the next armed timer is due
waitForTimer ==
    /\ running
    /\ immediates = 0
    /\ timeouts # {}
    /\ MinDue > now
    /\ now' = MinDue
    /\ UNCHANGED <<db, mem, isWriting, pendingWrite, writers, immediates, files,
                   exited, dbLast, timerFires, lastFire, flushes, coalesced,
                   pendingDone, followUps, elapsed>>
    /\ UNCHANGED timerVars
    /\ UNCHANGED saveGhosts
    /\ UNCHANGED ioFailed
    /\ dbOnly

\* the module as loaded: no database, no timer, no write; DB_PATH holds the
\* database of an earlier run (existing) or nothing
InitDb(existing) ==
    /\ db = "null"
    /\ mem = 0
    /\ saveTimeout = 0
    /\ timeouts = {}
    /\ isWriting = FALSE
    /\ pendingWrite = FALSE
    /\ writers = <<>>
    /\ immediates = 0
    /\ files = [p \in Paths |-> IF p = "db" /\ existing THEN File(0) ELSE NoFile]
    /\ exited = "no"
    /\ dbLast = "load"
    /\ calls = 0
    /\ lastCallAt = 0
    /\ bursts = 0
    /\ edgeGap = FALSE
    /\ timerFires = 0
    /\ lastFire = [at |-> 0, callAt |-> 0]
    /\ flushes = 0
    /\ coalesced = 0
    /\ pendingDone = 0
    /\ followUps = 0
    /\ elapsed = 0
    /\ dbLog = <<[ver |-> IF existing THEN EarlierVersions ELSE NewVersions,
                 key |-> "none", ret |-> 0]>>
    /\ burstFrom = 0
    /\ ioFailed = FALSE

\* the db module once startServer() has awaited initDb(), with no database
\* file from an earlier run: the state initDb leaves
InitDbStarted ==
    /\ db = "open"
    /\ mem = 0
    /\ saveTimeout = 1
    /\ timeouts = {[id |-> 1, due |-> Window]}
    /\ isWriting = FALSE
    /\ pendingWrite = FALSE
    /\ writers = <<>>
    /\ immediates = 0
    /\ files = [p \in Paths |-> NoFile]
    /\ exited = "no"
    /\ dbLast = "initDb"
    /\ calls = 1
    /\ lastCallAt = 0
    /\ bursts = 1
    /\ edgeGap = FALSE
    /\ timerFires = 0
    /\ lastFire = [at |-> 0, callAt |-> 0]
    /\ flushes = 0
    /\ coalesced = 0
    /\ pendingDone = 0
    /\ followUps = 0
    /\ elapsed = 0
    /\ dbLog = <<[ver |-> NewVersions, key |-> "none", ret |-> 0]>>
    /\ burstFrom = 0
    /\ ioFailed = FALSE

(***************************************************************************)
(* The server (the code in src/db/schema.sql from line 213 on): the SSE    *)
(* endpoint and notifyClients, which tie the hub to the version counters.  *)
(***************************************************************************)
\* res.status(503).json({success: false, message: 'Server at capacity, ...'})
Rejection == [event |-> "503", data |-> NoData]

\* the counters of a new database, whatever the database holds
currentVersions_stale == NewVersions

\* { raffles: statements.getVersion.get('raffles')?.version || 0, ... }
currentVersions == [d \in Domains |-> getVersionRow(dataVersions, d)]

\* the endpoint without the capacity test of its own
endpointRejects_never == FALSE

\* if (sseManager.isAtCapacity()) return res.status(503).json(...)
endpointRejects == isAtCapacity_ret

\* GET /api/events: answer 503 at capacity; else addClient(res) and then
\* sendToClient(res, 'version', versions), all in one turn of the event
\* loop.  fail: the handshake call that throws, if any; throws: whether the
\* write of the 'version' event throws.  An exception of addClient leaves the
\* handler before sendToClient.  A response that was answered or whose
\* handshake threw has no listeners, so its close is not a step on its own.
eventsEndpoint(res, fail, throws) ==
    /\ running
    /\ db = "open"
    /\ conn[res].state = "new"
    /\ \A c \in Conns : c < res => conn[c].state # "new"
    /\ IF endpointRejects
         THEN /\ conn' = [conn EXCEPT ![res].state = "closed",
                                      ![res].frames = <<Rejection>>]
              /\ clients' = clients
              /\ sseLast' = Call("GET /api/events", res, "503")
         ELSE IF atCapacity(Len(clients))
                THEN /\ conn' = [conn EXCEPT ![res].state = "open"]
                     /\ clients' = clients
                     /\ sseLast' = Call("GET /api/events", res, "false")
         ELSE IF fail = "writeHead"
                THEN /\ conn' = [conn EXCEPT ![res].state = "closed"]
                     /\ clients' = clients
                     /\ sseLast' = Call("GET /api/events", res, "throw")
         ELSE IF fail = "write"
                THEN /\ conn' = [conn EXCEPT ![res].state = "closed",
                                             ![res].frames = <<Headers>>]
                     /\ clients' = clients
                     /\ sseLast' = Call("GET /api/events", res, "throw")
         ELSE IF throws
                THEN /\ conn' = [conn EXCEPT ![res].state = "open",
                                             ![res].frames = <<Headers, Keepalive>>,
                                             ![res].handlers = TRUE]
                     /\ clients' = clients
                     /\ sseLast' = [Call("GET /api/events", res, "200") EXCEPT
                                       !.attempted = {res}, !.failed = {res}]
         ELSE /\ conn' = [conn EXCEPT ![res].state = "open",
                                      ![res].frames = <<Headers, Keepalive,
                                          message("version", currentVersions)>>,
                                      ![res].handlers = TRUE]
              /\ clients' = Append(clients, res)
              /\ sseLast' = [Call("GET /api/events", res, "200") EXCEPT
                                !.attempted = {res}]
    /\ UNCHANGED <<heartbeatInterval, timers, sseOps>>
    /\ sseOnly

\* notifyClients(type) with the counter read before the bump (a faulty variant)
notifyClients_stale(type, throwing) ==
    broadcast_sse("update",
                  [type |-> type, version |-> getVersionRow(dataVersions, type)],
                  throwing)

\* notifyClients(type): broadcast 'update' with the type and its counter
notifyClients(type, throwing) ==
    broadcast_sse("update",
                  [type |-> type, version |-> getVersionRow(dataVersions', type)],
                  throwing)

\* the end of every handler that changes raffles, rules or sponsors, in one
\* turn: cache.invalidate(x); bumpVersion(x); notifyClients(x)
mutationHandler(type, throwing) ==
    /\ cache' = MapDelete(cache, type)
    /\ shadow' = MapDelete(shadow, type)
    /\ versions' = MapDelete(versions, type)
    /\ hist' = [hist EXCEPT ![type] = Invalidated(hist[type])]
    /\ UNCHANGED sets
    /\ bumpVersion_db(type)
    /\ notifyClients(type, throwing)
    /\ UNCHANGED <<reqVars, restarts, authVars>>

(***************************************************************************)
(* The request handlers and callbacks of the server (src/db/schema.sql).   *)
(* A handler runs until its next await; turn names the handler that is in  *)
(* the middle of a synchronous section, during which nothing else runs.    *)
(***************************************************************************)
Reqs == 1..MaxReqs

\* the routes that change a domain: "image" is PUT /api/raffles/:id with an
\* imageUrl, which awaits the download after it has updated the fields;
\* "plain" is every other one
Kinds == {"plain", "image"}
NoReq == [pc |-> "new", d |-> "", kind |-> "", v0 |-> 0, ran |-> 0, steps |-> 0,
          bumps |-> 0, status |-> 0]

\* the characters of a header value, and the values explored; the empty
\* value stands for a request without the header
Chars == {"0", "1", "2", "x"}
Tokens == UNION {[1..n -> Chars] : n \in 0..MaxTokenLen}
DigitChars == <<"0", "1", "2", "3", "4", "5", "6", "7", "8", "9">>
NaN == -1
digit(c) == IF \E i \in 1..10 : DigitChars[i] = c
              THEN (CHOOSE i \in 1..10 : DigitChars[i] = c) - 1 ELSE NaN

\* the leading digits of str read in the radix; NaN if there is none
RECURSIVE parseDigits(_, _, _, _)
parseDigits(str, radix, acc, seen) ==
    IF str = <<>> \/ digit(Head(str)) = NaN
      THEN IF seen THEN acc ELSE NaN
      ELSE parseDigits(Tail(str), radix, acc * radix + digit(Head(str)), TRUE)

\* parseInt(clientVersion): the leading digits, in radix 16 after "0x"
parseInt(str) ==
    IF Len(str) >= 2 /\ str[1] = "0" /\ str[2] = "x"
      THEN parseDigits(SubSeq(str, 3, Len(str)), 16, 0, FALSE)
      ELSE parseDigits(str, 10, 0, FALSE)

\* String(currentVersion)
RECURSIVE String(_)
String(n) == IF n < 10 THEN <<DigitChars[n + 1]>>
             ELSE String(n \div 10) \o <<DigitChars[(n % 10) + 1]>>

\* What the last read, health check or sweep did: the answer, whether the
\* cache was hit, and the mutation request of the same domain that was
\* waiting for its download at the time (0 for none)
NoTurn == [op |-> "new", d |-> "", token |-> "absent", status |-> 0, etag |-> 0,
           body |-> 0, cache |-> "none", during |-> 0, ret |-> RetNull, tick |-> 0]
Turn(op, d) == [NoTurn EXCEPT !.op = op, !.d = d, !.tick = 1 - lastTurn.tick]

\* the event loop is between turns, and the server is up
idle == turn = 0 /\ running /\ db = "open"

\* if (clientVersion && parseInt(clientVersion) === currentVersion)
notModified(token, currentVersion) ==
    token # <<>> /\ parseInt(token) = currentVersion

\* GET /api/raffles, /api/rules, /api/sponsors: the whole handler.  rows[d]
\* stands for what getAllRaffles.all() (getRules, getAllSponsors) returns.
readDomain(d, token, skew) ==
    /\ idle
    /\ LET currentVersion == getVersionRow(dataVersions, d)
           cached == get_ret(d)
           t == [Turn("GET", d) EXCEPT
                    !.token = IF token = <<>> THEN "absent"
                              ELSE IF token = String(currentVersion) THEN "current"
                              ELSE "other",
                    !.during = IF \E r \in Reqs : reqs[r].d = d /\ reqs[r].pc = "download"
                                 THEN CHOOSE r \in Reqs :
                                          reqs[r].d = d /\ reqs[r].pc = "download"
                                 ELSE 0,
                    !.etag = currentVersion]
       IN  IF notModified(token, currentVersion)
             THEN /\ lastTurn' = [t EXCEPT !.status = 304]
                  /\ UNCHANGED <<cacheVars, now>>
             ELSE IF cached # RetNull
               THEN /\ skew = 0
                    /\ get_cache(d)
                    /\ lastTurn' = [t EXCEPT !.status = 200, !.body = cached.data,
                                             !.cache = "hit"]
               ELSE /\ sets < MaxSets
                    /\ set_cache(d, rows[d], currentVersion, skew)
                    /\ lastTurn' = [t EXCEPT !.status = 200, !.body = rows[d],
                                             !.cache = "miss"]
    /\ UNCHANGED <<sseVars, dbVars, rows, reqs, turn, genAt, restarts, authVars>>

\* GET /api/health: the whole handler
health ==
    /\ idle
    /\ DataCache_getStats_cache
    /\ lastTurn' = [Turn("health", "") EXCEPT
                       !.status = 200,
                       !.ret = [kind |-> "health",
                                sseClients |-> getClientCount_ret,
                                dbVersion |-> getVersionRow(dataVersions, "raffles"),
                                cacheStats |-> DataCache_getStats_ret]]
    /\ UNCHANGED <<sseVars, dbVars, rows, reqs, turn, genAt, restarts, authVars>>

\* setInterval(() => { cache.cleanup(); }, 5 * 60 * 1000): the callback
cleanupTick ==
    /\ idle
    /\ cleanup_cache
    /\ lastTurn' = Turn("cleanup", "")
    /\ UNCHANGED <<sseVars, dbVars, rows, reqs, turn, genAt, restarts, authVars>>

\* a mutation request arrives: the handler runs up to `await authenticate(..)`
begin(r, d, kind) ==
    /\ idle
    /\ reqs[r].pc = "new"
    /\ \A q \in Reqs : q < r => reqs[q].pc # "new"
    /\ kind = "image" => d = "raffles"
    /\ reqs' = [reqs EXCEPT ![r] = [NoReq EXCEPT !.pc = "auth", !.d = d, !.kind = kind,
                                                  !.v0 = getVersionRow(dataVersions, d)]]
    /\ UNCHANGED <<clockVars, cacheVars, sseVars, dbVars, rows, turn, lastTurn, genAt,
                   restarts, authVars>>

\* a statement of the handler changes the rows of its domain: run()
statementRun(r) ==
    /\ rows' = [rows EXCEPT ![reqs[r].d] = @ + 1]
    /\ run_db

\* authenticate() resolves; ok: the request passes the checks that follow.
\* Then the statement runs, and the handler either goes on to its last
\* three calls or, with an imageUrl, awaits the download.
authDone(r, ok) ==
    /\ idle
    /\ reqs[r].pc = "auth"
    /\ IF ~ok
         THEN /\ reqs' = [reqs EXCEPT ![r].pc = "done", ![r].status = 401]
              /\ UNCHANGED <<clockVars, dbVars, rows, turn>>
         ELSE /\ statementRun(r)
              /\ IF reqs[r].kind = "image"
                   THEN /\ reqs' = [reqs EXCEPT ![r].pc = "download", ![r].ran = @ + 1]
                        /\ turn' = turn
                   ELSE /\ reqs' = [reqs EXCEPT ![r].pc = "tail", ![r].ran = @ + 1]
                        /\ turn' = r
    /\ UNCHANGED <<cacheVars, sseVars, lastTurn, genAt, restarts, authVars>>

\* downloadImageFromUrl() settles: rejected, the handler answers 400 and
\* returns; resolved, updateRaffleImage runs and the last three calls follow
downloadDone(r, ok) ==
    /\ idle
    /\ reqs[r].pc = "download"
    /\ IF ~ok
         THEN /\ reqs' = [reqs EXCEPT ![r].pc = "done", ![r].status = 400]
              /\ UNCHANGED <<clockVars, dbVars, rows, turn>>
         ELSE /\ statementRun(r)
              /\ reqs' = [reqs EXCEPT ![r].pc = "tail", ![r].ran = @ + 1]
              /\ turn' = r
    /\ UNCHANGED <<cacheVars, sseVars, lastTurn, genAt, restarts, authVars>>

\* the last three calls in the order the specification gives them
stepOrder_bumpFirst == <<"bumpVersion", "invalidate", "notifyClients">>

\* cache.invalidate(x); bumpVersion(x); notifyClients(x);
stepOrder == <<"invalidate", "bumpVersion", "notifyClients">>

\* the next of the last three calls of a mutation handler; after the third
\* one the handler answers 200 and its turn ends
tailStep(r, throwing) ==
    /\ turn = r
    /\ reqs[r].pc = "tail"
    /\ LET d == reqs[r].d
           step == stepOrder[reqs[r].steps + 1]
           last == reqs[r].steps + 1 = Len(stepOrder)
           after == [reqs[r] EXCEPT !.steps = @ + 1,
                                    !.pc = IF last THEN "done" ELSE "tail",
                                    !.status = IF last THEN 200 ELSE 0]
       IN  /\ turn' = IF last THEN 0 ELSE r
           /\ IF step = "invalidate"
                THEN /\ throwing = {}
                     /\ invalidate_cache(d)
                     /\ reqs' = [reqs EXCEPT ![r] = after]
                     /\ UNCHANGED <<sseVars, dbVars, genAt>>
              ELSE IF step = "bumpVersion"
                THEN /\ throwing = {}
                     /\ bumpVersion_run(d)
                     /\ reqs' = [reqs EXCEPT ![r] = [after EXCEPT !.bumps = @ + 1]]
                     /\ genAt' = [genAt EXCEPT ![d] = Append(@, rows[d])]
                     /\ UNCHANGED <<cacheVars, sseVars>>
              ELSE /\ broadcast_sse("update",
                                    [type |-> d, version |-> getVersionRow(dataVersions, d)],
                                    throwing)
                   /\ reqs' = [reqs EXCEPT ![r] = after]
                   /\ UNCHANGED <<clockVars, cacheVars, dbVars, genAt>>
    /\ UNCHANGED <<rows, lastTurn, restarts, authVars>>

(***************************************************************************)
(* Authentication (src/db/schema.sql lines 408-463), POST /api/login and   *)
(* POST /api/change-password.                                              *)
(***************************************************************************)
\* const AUTH_CACHE_TTL = 5 * 60 * 1000
AUTH_CACHE_TTL == 5 * 60 * 1000
\* AUTH_CACHE_MAX (100 in the source), scaled down so that the eviction runs
AUTH_CACHE_MAX == 2

AuthReqs == 1..MaxAuthReqs
Routes == {"login", "change-password"}
\* usernames as typed: the registered one in two spellings, and an unknown one
Usernames == {"admin", "Admin", "guest"}
Passwords == {"first", "second"}

\* username.toLowerCase()
toLowerCase(u) == IF u = "Admin" THEN "admin" ELSE u

\* bcrypt.hash(password, 10) and bcrypt.compare(password, hash)
hash(password) == [bcrypt |-> password]
compare(password, passwordHash) == passwordHash = hash(password)

\* getAuthCacheKey: the sha256 of username.toLowerCase() + ':' + password
getAuthCacheKey(username, password) == [sha256 |-> <<toLowerCase(username), password>>]

\* a request before it arrives; passwordHash is the user row that
\* authenticate() read before it awaits the compare, retired is whether the
\* password presented had been changed away from when the call began
NoAuth == [pc |-> "new", route |-> "", username |-> "", password |-> "",
           newPassword |-> "", passwordHash |-> hash(""), retired |-> FALSE,
           status |-> 0]
NoAuthCall == [username |-> "", password |-> "", ret |-> FALSE, retired |-> FALSE,
               cached |-> FALSE, tick |-> 0]
AuthCall(a, ret, cached) ==
    [username |-> a.username, password |-> a.password, ret |-> ret,
     retired |-> a.retired, cached |-> cached, tick |-> 1 - authLast.tick]

\* const cached = authCache.get(cacheKey); cached && Date.now() < cached.expiresAt
authCached(key) ==
    \E i \in 1..Len(authCache) : authCache[i].key = key /\ now < authCache[i].expiresAt

\* the successful branch of authenticate(): evict the oldest entry of a full
\* Map, then authCache.set(cacheKey, { expiresAt: Date.now() + AUTH_CACHE_TTL })
authCacheSet(key) ==
    LET kept == IF Len(authCache) >= AUTH_CACHE_MAX THEN Tail(authCache) ELSE authCache
        entry == [key |-> key, expiresAt |-> now + AUTH_CACHE_TTL]
    IN  IF \E i \in 1..Len(kept) : kept[i].key = key
          THEN [i \in 1..Len(kept) |-> IF kept[i].key = key THEN entry ELSE kept[i]]
          ELSE Append(kept, entry)

\* what follows `await authenticate(...)` in the two routes
afterAuthenticate(a, isValid) ==
    IF ~isValid THEN [a EXCEPT !.pc = "done", !.status = 401]
    ELSE IF a.route = "login" THEN [a EXCEPT !.pc = "done", !.status = 200]
    ELSE [a EXCEPT !.pc = "hash"]

\* a login or change-password request arrives: authenticate() up to its
\* return (a cached pair, an unknown user) or to `await bcrypt.compare(...)`
authBegin(r, route, username, password, newPassword) ==
    /\ running /\ db = "open"
    /\ auths[r].pc = "new"
    /\ \A q \in AuthReqs : q < r => auths[q].pc # "new"
    /\ route = "login" => newPassword = password
    /\ LET name == toLowerCase(username)
           a == [NoAuth EXCEPT !.route = route, !.username = username,
                               !.password = password, !.newPassword = newPassword,
                               !.retired = (name \in DOMAIN users
                                            /\ password \in users[name].retired)]
       IN  IF authCached(getAuthCacheKey(username, password))
             THEN /\ auths' = [auths EXCEPT ![r] = afterAuthenticate(a, TRUE)]
                  /\ authLast' = AuthCall(a, TRUE, TRUE)
           ELSE IF name \notin DOMAIN users
             THEN /\ auths' = [auths EXCEPT ![r] = afterAuthenticate(a, FALSE)]
                  /\ authLast' = AuthCall(a, FALSE, FALSE)
           ELSE /\ auths' = [auths EXCEPT ![r] =
                                 [a EXCEPT !.pc = "compare",
                                           !.passwordHash = users[name].passwordHash]]
                /\ authLast' = authLast
    /\ UNCHANGED <<users, authCache>>
    /\ UNCHANGED <<clockVars, cacheVars, sseVars, dbVars, reqVars, restarts>>

\* bcrypt.compare() resolves: a valid pair is cached, authenticate() returns
\* and the route goes on
compareDone(r) ==
    /\ running /\ db = "open"
    /\ auths[r].pc = "compare"
    /\ LET a == auths[r]
           isValid == compare(a.password, a.passwordHash)
       IN  /\ authCache' = IF isValid
                             THEN authCacheSet(getAuthCacheKey(a.username, a.password))
                             ELSE authCache
           /\ auths' = [auths EXCEPT ![r] = afterAuthenticate(a, isValid)]
           /\ authLast' = AuthCall(a, isValid, FALSE)
    /\ UNCHANGED users
    /\ UNCHANGED <<clockVars, cacheVars, sseVars, dbVars, reqVars, restarts>>

\* POST /api/change-password after `await bcrypt.hash(newPassword, 10)`:
\* statements.updateUserPassword.run(hashedPassword, username.toLowerCase()),
\* nothing else, and the answer
hashDone(r) ==
    /\ running /\ db = "open"
    /\ calls < MaxCalls
    /\ auths[r].pc = "hash"
    /\ LET a == auths[r]
           name == toLowerCase(a.username)
       IN  /\ users' = [users EXCEPT ![name] =
                            [passwordHash |-> hash(a.newPassword),
                             retired |-> (@.retired \cup {a.password}) \ {a.newPassword}]]
           /\ auths' = [auths EXCEPT ![r] = [a EXCEPT !.pc = "done", !.status = 200]]
    /\ run_db
    /\ UNCHANGED <<authCache, authLast>>
    /\ UNCHANGED <<cacheVars, sseVars, reqVars, restarts>>

\* setInterval(cleanupAuthCache, 60000): the callback
cleanupAuthCache ==
    /\ running /\ db = "open"
    /\ authCache' = SelectSeq(authCache, LAMBDA e : ~(now > e.expiresAt))
    /\ UNCHANGED <<users, auths, authLast>>
    /\ UNCHANGED <<clockVars, cacheVars, sseVars, dbVars, reqVars, restarts>>

\* time passes until a cached pair is one millisecond short of its expiry,
\* at it, or one millisecond past it
authWait(off) ==
    /\ running /\ db = "open"
    /\ \E i \in 1..Len(authCache) :
          /\ authCache[i].expiresAt + off > now
          /\ now' = authCache[i].expiresAt + off
    /\ UNCHANGED authVars
    /\ UNCHANGED <<cacheVars, sseVars, dbVars, reqVars, restarts>>

\* the users table as the migration left it, and an empty authCache
InitAuth ==
    /\ users = [u \in {"admin"} |-> [passwordHash |-> hash("first"), retired |-> {}]]
    /\ authCache = <<>>
    /\ auths = [r \in AuthReqs |-> NoAuth]
    /\ authLast = NoAuthCall

InitProcess ==
    /\ restarts = 0

\* The server is started again after the process has ended: the modules are
\* loaded and startServer() awaits initDb(), which reads DB_PATH.  What the
\* old process held in memory is gone (the database, its timers and writes
\* in flight, the cache, authCache, the live set); the files stay, and the
\* responses of the old process are closed with the frames their clients
\* have received.  The start is taken for runs that left the rows of the
\* three domains and the users table alone.
restart ==
    /\ ~running
    /\ restarts < MaxRestarts
    /\ restarts' = restarts + 1
    /\ \A d \in Domains : rows[d] = 0
    /\ auths = [r \in AuthReqs |-> NoAuth]
    /\ exited' = "no"
    \* initDb()
    /\ db' = "open"
    /\ mem' = IF files["db"].exists /\ files["db"].complete THEN files["db"].data ELSE 0
    /\ dbLog' = SubSeq(dbLog, 1, mem' + 1)
    /\ saveTimeout' = 1
    /\ timeouts' = {[id |-> 1, due |-> now + Window]}
    /\ calls' = 1
    /\ lastCallAt' = now
    /\ bursts' = 1
    /\ edgeGap' = FALSE
    /\ burstFrom' = mem'
    /\ dbLast' = "initDb"
    \* the variables of the db module
    /\ isWriting' = FALSE
    /\ pendingWrite' = FALSE
    /\ writers' = <<>>
    /\ immediates' = 0
    /\ timerFires' = 0
    /\ lastFire' = [at |-> 0, callAt |-> 0]
    /\ flushes' = 0
    /\ coalesced' = 0
    /\ pendingDone' = 0
    /\ followUps' = 0
    /\ ioFailed' = FALSE
    \* new DataCache(), new SSEManager(), new Map()
    /\ cache' = EmptyMap
    /\ shadow' = EmptyMap
    /\ versions' = EmptyMap
    /\ hist' = [k \in Keys |-> NeverSet]
    /\ clients' = <<>>
    /\ heartbeatInterval' = 1
    /\ timers' = {1}
    /\ conn' = [c \in Conns |-> IF conn[c].state = "open"
                                   THEN [conn[c] EXCEPT !.state = "closed",
                                                        !.handlers = FALSE]
                                   ELSE conn[c]]
    /\ sseLast' = NoCall
    /\ authCache' = <<>>
    /\ UNCHANGED <<now, files, elapsed, sets, sseOps, reqVars, users, auths, authLast>>

InitReq ==
    /\ rows = [d \in Domains |-> 0]
    /\ reqs = [r \in Reqs |-> NoReq]
    /\ turn = 0
    /\ lastTurn = NoTurn
    /\ genAt = [d \in Domains |-> <<>>]

InitClock ==
    /\ now = 0

Init ==
    /\ InitClock
    /\ InitCache
    /\ InitSSE
    /\ InitDbStarted
    /\ InitReq
    /\ InitAuth
    /\ InitProcess

NextCache ==
    \/ \E k \in Keys : get(k)
    \/ \E k \in Keys : getWithVersion(k)
    \/ \E k \in Keys, p \in Payloads, v \in Versions, s \in ClockSkews : set(k, p, v, s)
    \/ \E k \in Keys : getVersion(k)
    \/ \E k \in Keys : invalidate(k)
    \/ invalidateAll
    \/ DataCache_getStats
    \/ cleanup
    \/ \E k \in Keys, off \in ExpiryOffsets : wait(k, off)

SpecCache == Init /\ [][NextCache]_vars

\* What the callers pass: the handshake call that throws, if any; the event
\* the server broadcasts, and the one it sends to a single client
HandshakeFailures == {"none", "writeHead", "write"}
BroadcastEvents == {"update"}
SendEvents == {"version"}
UpdateData == {[type |-> "raffles", version |-> 1]}
VersionData == {[raffles |-> 0, rules |-> 0, sponsors |-> 0]}

NextSSE ==
    \/ \E c \in Conns, f \in HandshakeFailures : addClient(c, f)
    \/ \E c \in Conns : onClose(c)
    \/ \E c \in Conns : onError(c)
    \/ \E e \in BroadcastEvents, d \in UpdateData, F \in SUBSET Conns : broadcast(e, d, F)
    \/ \E F \in SUBSET Conns : sendHeartbeatToAll(F)
    \/ \E c \in Conns, e \in SendEvents, d \in VersionData, t \in BOOLEAN :
          sendToClient(c, e, d, t)
    \/ getClientCount
    \/ isAtCapacity
    \/ SSEManager_getStats
    \/ \E F \in SUBSET Conns : closeAll(F)

SpecSSE == Init /\ [][NextSSE]_vars

\* the hub called directly and through the endpoint of the server
NextSSEServer ==
    \/ NextSSE
    \/ \E c \in Conns, f \in HandshakeFailures, t \in BOOLEAN : eventsEndpoint(c, f, t)

SpecSSEServer == Init /\ [][NextSSEServer]_vars

\* the server while it runs: the hub is called by the endpoint, by
\* notifyClients, by its own timer and by the listeners of its responses
NextServer ==
    \/ \E c \in Conns, f \in HandshakeFailures, t \in BOOLEAN : eventsEndpoint(c, f, t)
    \/ \E type \in Domains, F \in SUBSET Conns : mutationHandler(type, F)
    \/ \E F \in SUBSET Conns : sendHeartbeatToAll(F)
    \/ \E c \in Conns : onClose(c)
    \/ \E c \in Conns : onError(c)

SpecServer == Init /\ [][NextServer]_vars

\* the server at work: reads and mutations, turn by turn
NextHandlers ==
    \/ \E d \in Domains, token \in Tokens, s \in ClockSkews : readDomain(d, token, s)
    \/ \E r \in Reqs, d \in Domains, kind \in Kinds : begin(r, d, kind)
    \/ \E r \in Reqs, ok \in BOOLEAN : authDone(r, ok)
    \/ \E r \in Reqs, ok \in BOOLEAN : downloadDone(r, ok)
    \/ \E r \in Reqs, F \in SUBSET Conns : tailStep(r, F)

SpecHandlers == Init /\ [][NextHandlers]_vars

\* the server observed: reads fill the cache, time passes, event streams
\* open and close, and the health check, the sweep and the observers run
NextObserve ==
    \/ \E d \in Domains, s \in ClockSkews : readDomain(d, <<>>, s)
    \/ \E k \in Domains, off \in ExpiryOffsets : idle /\ wait(k, off)
    \/ \E c \in Conns : eventsEndpoint(c, "none", FALSE)
    \/ \E c \in Conns : onClose(c)
    \/ health
    \/ cleanupTick
    \/ DataCache_getStats
    \/ getClientCount
    \/ isAtCapacity
    \/ SSEManager_getStats

SpecObserve == Init /\ [][NextObserve]_vars

\* reads that present no version, one mutation request, and the clock
NextReads ==
    \/ \E d \in Domains, s \in ClockSkews : readDomain(d, <<>>, s)
    \/ \E r \in Reqs, d \in Domains, kind \in Kinds : begin(r, d, kind)
    \/ \E r \in Reqs, ok \in BOOLEAN : authDone(r, ok)
    \/ \E r \in Reqs, ok \in BOOLEAN : downloadDone(r, ok)
    \/ \E r \in Reqs : tailStep(r, {})
    \/ \E k \in Domains, off \in ExpiryOffsets : idle /\ wait(k, off)

SpecReads == Init /\ [][NextReads]_vars

\* logins and password changes, the sweep of authCache, and the clock
NextAuth ==
    \/ \E r \in AuthReqs, route \in Routes, u \in Usernames, p, np \in Passwords :
          authBegin(r, route, u, p, np)
    \/ \E r \in AuthReqs : compareDone(r)
    \/ \E r \in AuthReqs : hashDone(r)
    \/ cleanupAuthCache
    \/ \E off \in ExpiryOffsets : authWait(off)

SpecAuth == Init /\ [][NextAuth]_vars

\* the server with its clients, its mutations and its saves, killed and
\* started again
NextRestart ==
    \/ \E c \in Conns : eventsEndpoint(c, "none", FALSE)
    \/ \E type \in Domains : mutationHandler(type, {})
    \/ waitForTimer
    \/ onTimeout
    \/ \E i \in DOMAIN writers : mkdirDone(i, TRUE)
    \/ \E i \in DOMAIN writers : writeFileDone(i, TRUE)
    \/ \E i \in DOMAIN writers : renameDone(i, TRUE)
    \/ kill
    \/ restart

SpecRestart == Init /\ [][NextRestart]_vars

InitDbModule ==
    /\ InitClock
    /\ InitCache
    /\ InitSSE
    /\ \E existing \in BOOLEAN : InitDb(existing)
    /\ InitReq
    /\ InitAuth
    /\ InitProcess

IoOutcomes == BOOLEAN

NextDb ==
    \/ initDb
    \/ run
    \/ onTimeout
    \/ onImmediate
    \/ \E i \in DOMAIN writers, ok \in IoOutcomes : mkdirDone(i, ok)
    \/ \E i \in DOMAIN writers, ok \in IoOutcomes : writeFileDone(i, ok)
    \/ \E i \in DOMAIN writers, ok \in IoOutcomes : renameDone(i, ok)
    \/ \E sig \in ExitSignals : onSignal(sig)
    \/ kill
    \/ \E i \in DOMAIN writers : ioOutlives(i)
    \/ \E d \in ElapseSteps : elapse(d)
    \/ waitForTimer

SpecDb == InitDbModule /\ [][NextDb]_vars

\* The event loop runs a callback that is due, time reaches the next timer,
\* every file operation returns (done or failed), and the server calls
\* initDb() when it starts.
FairnessDb ==
    /\ WF_vars(initDb)
    /\ WF_vars(waitForTimer)
    /\ WF_vars(onTimeout)
    /\ WF_vars(onImmediate)
    /\ WF_vars(\E i \in DOMAIN writers, ok \in IoOutcomes : mkdirDone(i, ok))
    /\ WF_vars(\E i \in DOMAIN writers, ok \in IoOutcomes : writeFileDone(i, ok))
    /\ WF_vars(\E i \in DOMAIN writers, ok \in IoOutcomes : renameDone(i, ok))

SpecDbLive == SpecDb /\ FairnessDb

\* the same with the mutations told apart: those that bump a version counter
NextDbVersions ==
    \/ NextDb
    \/ \E key \in BumpKeys : bumpVersion(key)

SpecDbVersions == InitDbModule /\ [][NextDbVersions]_vars


(***************************************************************************)
(* Claims about DataCache, checked under SpecCache.                        *)
(***************************************************************************)

\* C1: after set(k, p, v) at time t0 (and no later set or invalidate of k),
\* a get(k) at time t returns p and a getWithVersion(k) returns (p, v) when
\* t <= t0 + ttl(k), and both return null when t > t0 + ttl(k).
C1_ReadWithinTTL ==
    \A k \in Keys :
        hist[k].state = "set" =>
            /\ get_ret(k) = IF now <= hist[k].t0 + ttl(k)
                              THEN RetData(hist[k].data) ELSE RetNull
            /\ getWithVersion_ret(k) =
                   IF now <= hist[k].t0 + ttl(k)
                     THEN RetEntry(hist[k].data, hist[k].version) ELSE RetNull

\* A read of "raffles" exactly 30000 ms after its set still returns the payload.
C1_Witness ==
    /\ hist["raffles"].state = "set"
    /\ now = hist["raffles"].t0 + 30000
    /\ get_ret("raffles") = RetData(hist["raffles"].data)

\* A read of "raffles" 30001 ms after its set returns null.
C1_WitnessExpired ==
    /\ hist["raffles"].state = "set"
    /\ now = hist["raffles"].t0 + 30001
    /\ getWithVersion_ret("raffles") = RetNull

\* C2: after invalidate(k) or invalidateAll(), get(k) returns null whatever
\* TTL the entry had left, until the next set(k, ...).
C2_InvalidatedReadsAbsent ==
    \A k \in Keys :
        hist[k].state = "invalidated" => get_ret(k) = RetNull

\* A get of a key that was invalidated while its entry was still fresh.
C2_Witness ==
    \E k \in Keys :
        /\ hist[k].state = "invalidated"
        /\ now < hist[k].t0 + ttl(k)
        /\ get_ret(k) = RetNull

\* get(key) and getWithVersion(key) as they answer when cleanup() never runs
get_unswept(key) ==
    IF ~MapHas(shadow, key) THEN RetNull
    ELSE IF isExpired(shadow[key], now) THEN RetNull
    ELSE RetData(shadow[key].data)

getWithVersion_unswept(key) ==
    IF ~MapHas(shadow, key) THEN RetNull
    ELSE IF isExpired(shadow[key], now) THEN RetNull
    ELSE RetEntry(shadow[key].data, shadow[key].version)

\* C31: cleanup() is not observable through reads: after any sequence of
\* set, invalidate, reads and clock advances, get(k) and getWithVersion(k)
\* answer the same whether or not cleanup() calls were inserted in it.
C31_SweepInvisibleToReads ==
    \A k \in Keys :
        /\ get_ret(k) = get_unswept(k)
        /\ getWithVersion_ret(k) = getWithVersion_unswept(k)

\* cleanup() has removed an expired entry that would otherwise still be in
\* the Map, while another key still reads as a payload.
C31_Witness ==
    \E k, j \in Keys :
        /\ k \in DOMAIN shadow
        /\ k \notin DOMAIN cache
        /\ get_ret(k) = RetNull
        /\ get_ret(j) # RetNull

\* C35: getVersion(k) agrees with the cache contents: it returns the version
\* of the entry of k when get(k) would return a payload, and 0 when get(k)
\* would return null, also after the entry expired or was swept.
C35_Original ==
    \A k \in Keys :
        getVersion_ret(k) =
            IF get_ret(k) = RetNull THEN RetNumber(0)
            ELSE RetNumber(cache[k].version)

C30_Original ==
    \A k \in DOMAIN cache : cache[k].expiresAt = cache[k].cachedAt + ttl(k)

(***************************************************************************)
(* Claims about SSEManager, checked under SpecSSE.                         *)
(***************************************************************************)
\* C21: a response is in the live set only after it was admitted and leaves
\* it for good: it leaves with its close or error event, with a write to it
\* that throws in broadcast, the heartbeat or sendToClient, or with
\* closeAll(); a closed response is not live; once out of the live set a
\* response is written no further frame and is never live again.
C21_AdmittedLiveClosed ==
    /\ [](\A c \in Conns : conn[c].state \in {"new", "closed"} => c \notin Range(clients))
    /\ [][\A c \in Conns :
              /\ (c \in Range(clients) /\ c \notin Range(clients')) =>
                     \/ sseLast'.op \in {"close", "error"} /\ sseLast'.conn = c
                     \/ /\ sseLast'.op \in {"broadcast", "sendHeartbeatToAll", "sendToClient"}
                        /\ c \in sseLast'.failed
                     \/ sseLast'.op = "closeAll"
              /\ (c \notin Range(clients) /\ conn[c].state # "new") =>
                     /\ c \notin Range(clients')
                     /\ conn'[c].frames = conn[c].frames
              /\ (c \notin Range(clients) /\ c \in Range(clients')) =>
                     /\ conn[c].state = "new"
                     /\ sseLast'.op = "addClient"]_vars

\* a response left the live set when a write to it threw; the two frames
\* sent since went to the other live response only
C21_Witness ==
    \E c, d \in Conns :
        /\ c \notin Range(clients)
        /\ conn[c].state = "open"
        /\ conn[c].handlers
        /\ Len(conn[c].frames) = 2
        /\ d \in Range(clients)
        /\ Len(conn[d].frames) = 4


\* C37: when writing the headers or the initial keepalive throws inside
\* addClient(res), res is not added to the live set, no close or error
\* listener is registered for it, and the live set is as it was.
C37_FailedHandshakeAdmitsNothing ==
    [][\A c \in Conns :
          (/\ conn[c].state = "new"
           /\ sseLast'.op = "addClient"
           /\ sseLast'.conn = c
           /\ sseLast'.ret = "throw") =>
              /\ clients' = clients
              /\ c \notin Range(clients')
              /\ ~conn'[c].handlers
              /\ Len(clients') = Len(clients)]_vars

\* the initial keepalive of a response threw after its headers were written,
\* while another response was live
C37_Witness ==
    /\ sseLast.op = "addClient"
    /\ sseLast.ret = "throw"
    /\ conn[sseLast.conn].frames = <<Headers>>
    /\ ~conn[sseLast.conn].handlers
    /\ clients # <<>>
    /\ sseLast.conn \notin Range(clients)

\* C3: with capacity N the live connection count never exceeds N, whatever
\* sequence of addClient, close/error events, broadcast, heartbeat and
\* sendToClient runs; an addClient that finds N live connections returns
\* false and leaves the count at N.
C3_CapacityNeverExceeded ==
    /\ Len(clients) <= maxConnections
    /\ Cardinality(Range(clients)) = Len(clients)
    /\ (sseLast.op = "addClient" /\ Cardinality(sseLast.before) = maxConnections) =>
           /\ sseLast.ret = "false"
           /\ Len(clients) = maxConnections

\* The third connection attempt is rejected while two connections are live.
C3_Witness ==
    /\ sseLast.op = "addClient"
    /\ sseLast.ret = "false"
    /\ Cardinality(sseLast.before) = maxConnections
    /\ getClientCount_ret = maxConnections

\* C4: a broadcast to N live connections of which M throw on write leaves
\* exactly the N-M others live, each of them was written the event frame,
\* and the write was attempted on every one of the N.
C4_BroadcastIsolatesFailures ==
    sseLast.op = "broadcast" =>
        /\ Range(clients) = sseLast.before \ sseLast.failed
        /\ Len(clients) = Cardinality(sseLast.before) - Cardinality(sseLast.failed)
        /\ sseLast.attempted = sseLast.before
        /\ \A c \in sseLast.before \ sseLast.failed :
               /\ Len(conn[c].frames) >= 3
               /\ conn[c].frames[Len(conn[c].frames)].event \in BroadcastEvents

\* A broadcast to two live connections, one of which threw.
C4_Witness ==
    /\ sseLast.op = "broadcast"
    /\ Cardinality(sseLast.before) = 2
    /\ Cardinality(sseLast.failed) = 1
    /\ Len(clients) = 1

(***************************************************************************)
(* Claims about the hub and the endpoint, checked under SpecSSEServer.     *)
(***************************************************************************)
\* C15: an addClient that finds the live set at or above capacity returns
\* false, leaves the live set as it was, writes nothing to the response and
\* registers no handler; a GET /api/events that finds it so is answered
\* with 503 and nothing else, and the live set is as it was.
C15_RejectedAtCapacity ==
    /\ (sseLast.op = "addClient" /\ Cardinality(sseLast.before) >= maxConnections) =>
           /\ sseLast.ret = "false"
           /\ Range(clients) = sseLast.before
           /\ conn[sseLast.conn].frames = <<>>
           /\ ~conn[sseLast.conn].handlers
           /\ ~conn[sseLast.conn].ended
    /\ (sseLast.op = "GET /api/events" /\ Cardinality(sseLast.before) >= maxConnections) =>
           /\ sseLast.ret = "503"
           /\ Range(clients) = sseLast.before
           /\ conn[sseLast.conn].frames = <<Rejection>>
           /\ ~conn[sseLast.conn].handlers
    /\ \A c \in Conns : c \notin Range(clients) /\ conn[c].frames = <<>> =>
           ~conn[c].handlers

\* with two live connections, a third request was answered 503
C15_Witness ==
    /\ sseLast.op = "GET /api/events"
    /\ sseLast.ret = "503"
    /\ Len(clients) = maxConnections
    /\ conn[sseLast.conn].frames = <<Rejection>>

(***************************************************************************)
(* Claims about the db module, checked under SpecDb.                       *)
(***************************************************************************)
\* DB_PATH holds the in-memory database
durable == files["db"] = File(mem)

\* no timer armed, no write in progress, no callback queued, process running
quiescent ==
    /\ running
    /\ db = "open"
    /\ timeouts = {}
    /\ writers = <<>>
    /\ immediates = 0

\* C5: scheduleSave() calls that come less than a window apart (one burst)
\* lead to one flush: the debounce timer runs saveDatabase() once per burst,
\* exactly one window after the LAST call of the burst, and for the first
\* burst that is exactly one physical write (while the process runs: the
\* shutdown path starts a write of its own).
C5_BurstFlushesOnceAfterLastCall ==
    ~edgeGap =>
        /\ timerFires <= bursts
        /\ (timerFires >= 1 => lastFire.at = lastFire.callAt + Window)
        /\ (running /\ bursts = 1 => flushes <= 1)
        /\ (running /\ db = "open" /\ timeouts = {} => timerFires = bursts)
        /\ (running /\ db = "open" /\ timeouts = {} /\ bursts = 1 => flushes = 1)

\* three calls in one burst, the last of them after the first, and the one
\* flush started a window after the last
C5_Witness ==
    /\ ~edgeGap
    /\ calls = 3
    /\ bursts = 1
    /\ lastCallAt > 0
    /\ timerFires = 1
    /\ flushes = 1
    /\ lastFire.at = lastCallAt + Window
    /\ files["db"] = File(mem)

\* C6 as stated: scheduleSave() calls that are each more than a window apart
\* lead to as many physical writes as there were calls, however long a
\* write takes.
C6_Original ==
    (~edgeGap /\ bursts = calls /\ quiescent) => flushes = calls

\* C6: scheduleSave() calls that are each more than a window apart make the
\* debounce timer run saveDatabase() once per call; that is one physical
\* write per call when no call of saveDatabase() found a write in progress,
\* and never more writes than calls.
C6_SeparatedCallsFlushEach ==
    (~edgeGap /\ bursts = calls /\ quiescent) =>
        /\ timerFires = calls
        /\ flushes >= 1
        /\ flushes <= calls
        /\ (coalesced = 0 => flushes = calls)

\* three separated calls, three finished writes, the file up to date
C6_Witness ==
    /\ ~edgeGap
    /\ quiescent
    /\ calls = 3
    /\ bursts = 3
    /\ coalesced = 0
    /\ flushes = 3
    /\ files["db"] = File(mem)

\* the write requests that wait behind the write in progress: the pending
\* flag, and the follow-up call the finally block has queued
queued == (IF pendingWrite THEN 1 ELSE 0) + immediates

\* C7: while the process runs at most one saveDatabase() call is between
\* taking the lock and its finally block, and it holds the lock; every other
\* call that found the lock held started no write (calls that start a write
\* and calls that only set the flag add up to all calls that had a
\* database); at most one request waits behind the write in progress.
C7_SingleFlight ==
    running =>
        /\ Len(writers) <= 1
        /\ (isWriting <=> Len(writers) = 1)
        /\ queued <= 1
        /\ (pendingWrite => isWriting)
        /\ flushes + coalesced = timerFires + (pendingDone - immediates)

\* a write is in progress, two more calls came meanwhile, one request waits
C7_Witness ==
    /\ running
    /\ Len(writers) = 1
    /\ writers[1].pc = "writeFile"
    /\ coalesced = 2
    /\ flushes = 1
    /\ pendingWrite

\* C8: when a write finishes with the pending flag set, the flag is cleared,
\* the lock is free and one follow-up call is queued; when that call runs it
\* starts a write of the database as it is then, so with every mutation
\* applied so far; each such finish leads to exactly one follow-up write.
C8_FollowUpFlush ==
    /\ (dbLast = "donePending" =>
            /\ ~pendingWrite
            /\ ~isWriting
            /\ immediates = 1)
    /\ (dbLast = "immediate" =>
            /\ immediates = 0
            /\ isWriting
            /\ ~pendingWrite
            /\ Len(writers) = 1
            /\ writers[1] = [pc |-> "mkdir", buf |-> mem])
    /\ (running => followUps + immediates = pendingDone)

\* a mutation came while the first write was in progress, and the follow-up
\* write has just started with it
C8_Witness ==
    /\ dbLast = "immediate"
    /\ followUps = 1
    /\ flushes = 2
    /\ mem = 2
    /\ writers[1].buf = 2
    /\ ~files["db"].exists \/ files["db"].data < 2

\* C9: in every state, also after the process was killed or has exited in
\* the middle of saveDatabase(), DB_PATH is absent or holds one complete
\* serialized database that was the in-memory database at some time; an
\* incomplete file exists at the temporary path only.
C9_TargetNeverPartial ==
    /\ files["db"].complete
    /\ (files["db"].exists => files["db"].data \in 0..mem)
    /\ \A p \in Paths : ~files[p].complete => p = "tmp"

\* killed while the buffer of a newer database was being written: the
\* temporary file is incomplete, DB_PATH still holds the previous database
C9_Witness ==
    /\ exited = "killed"
    /\ mem = 2
    /\ files["tmp"] = Partial(2)
    /\ files["db"] = File(1)

\* the process has ended and no file operation is still in flight
settled == ~running /\ \A i \in DOMAIN writers : writers[i].pc = "mkdir"

\* C10 as stated: after a shutdown by SIGINT or SIGTERM no debounce timer is
\* armed and, if any mutation was applied, DB_PATH holds the database with
\* every mutation applied before the shutdown.
C10_Original ==
    (exited \in ExitSignals /\ settled) =>
        /\ timeouts = {}
        /\ (mem > 0 => files["db"] = File(mem))

\* C14: a failed mkdir, writeFile or rename never ends the process (it ends
\* by a signal or a kill only), so nothing is raised into the caller; once
\* the failed saveDatabase() call is over the lock is free again, so the
\* next saveDatabase() call starts a write.
C14_FailuresSwallowed ==
    /\ exited \in {"no", "killed"} \cup ExitSignals
    /\ (running /\ writers = <<>> => ~isWriting)
    /\ (dbLast \in {"done", "donePending"} => ~isWriting /\ writers = <<>>)

\* a file operation failed, and a later write went through
C14_Witness ==
    /\ ioFailed
    /\ running
    /\ flushes = 2
    /\ dbLast = "done"
    /\ durable
    /\ mem = 1

\* C32: at most one debounce timer is armed at any time, and it is the one
\* saveTimeout names; each scheduleSave() call leaves only the timer it arms,
\* so the timer armed before is cancelled; the timer whose callback runs is
\* the one armed by the last call, so a cancelled timer never fires and
\* never starts a write.
C32_OneDebounceTimer ==
    /\ [](/\ Cardinality(timeouts) <= 1
          /\ \A t \in timeouts : t.id = saveTimeout)
    /\ [][calls' = calls + 1 =>
              timeouts' = {[id |-> saveTimeout', due |-> now + Window]}]_vars
    /\ [][timerFires' = timerFires + 1 =>
              /\ timeouts = {[id |-> calls, due |-> lastCallAt + Window]}
              /\ timeouts' = {}]_vars

\* a call within the window of the call before it cancelled that call's
\* timer; the timer armed last has fired once since and started the only
\* write, and a further call has armed a timer again
C32_Witness ==
    /\ calls = 3
    /\ bursts = 2
    /\ timerFires = 1
    /\ flushes = 1
    /\ Cardinality(timeouts) = 1

\* C39: between two steps of the event loop pendingWrite implies isWriting;
\* the flag is set only while a write is in progress, and it is cleared in
\* the step that clears isWriting.
C39_PendingImpliesWriting ==
    /\ [](pendingWrite => isWriting)
    /\ [][(~pendingWrite /\ pendingWrite') => (isWriting /\ isWriting')]_vars
    /\ [][(pendingWrite /\ ~pendingWrite') => (isWriting /\ ~isWriting')]_vars

\* a write that ended with the flag set has just cleared both
C39_Witness ==
    /\ dbLast = "donePending"
    /\ coalesced = 1
    /\ ~pendingWrite
    /\ ~isWriting
    /\ running

(***************************************************************************)
(* Claims about the version counters, checked under SpecDbVersions.        *)
(***************************************************************************)
\* the bumpVersion(d) calls so far, in order
bumpsOf(d) == SelectSeq(dbLog, LAMBDA e : e.key = d)

\* C11: for every domain d the i-th bumpVersion(d) call returns the value
\* the counter had when the database was loaded plus i, which is also the
\* value it leaves stored, so successive calls return values that grow by
\* exactly 1 and no two calls return or store the same value; no mutation
\* changes the counter of another domain.
C11_BumpIncrementsByOne ==
    /\ \A d \in Domains :
          LET bumps == bumpsOf(d)
          IN /\ \A i \in 1..Len(bumps) :
                    /\ bumps[i].ret = dbLog[1].ver[d] + i
                    /\ bumps[i].ver[d] = bumps[i].ret
             /\ dbLog[Len(dbLog)].ver[d] = dbLog[1].ver[d] + Len(bumps)
    /\ \A j \in 2..Len(dbLog) : \A d \in Domains \ {dbLog[j].key} :
          dbLog[j].ver[d] = dbLog[j - 1].ver[d]

\* two bumps of a counter that was at 2 return 3 and then 4
C11_Witness ==
    /\ dbLog[1].ver["raffles"] = 2
    /\ Len(bumpsOf("raffles")) = 2
    /\ bumpsOf("raffles")[1].ret = 3
    /\ bumpsOf("raffles")[2].ret = 4
    /\ dataVersions["raffles"] = 4

\* the bumpVersion(d) calls of the current burst, and the counter before it
burstBumps(d) == Cardinality({j \in (burstFrom + 2)..Len(dbLog) : dbLog[j].key = d})
preBurst(d) == dbLog[burstFrom + 1].ver[d]

heartbeatArmed == heartbeatInterval # 0 /\ timers = {heartbeatInterval}

\* C17: the hub is constructed with exactly one heartbeat timer armed, and
\* every step other than closeAll() leaves that one timer armed: admitting a
\* connection, removing one, a broadcast, a send and a heartbeat tick neither
\* arm a timer nor cancel one.
C17_OneHeartbeatTimer ==
    /\ heartbeatArmed
    /\ [](Cardinality(timers) <= 1)
    /\ [][(heartbeatArmed /\ sseLast'.op # "closeAll") =>
              (heartbeatArmed' /\ timers' = timers)]_vars

\* a connection was admitted, another one was removed, a heartbeat has
\* ticked, and the timer is armed
C17_Witness ==
    /\ heartbeatArmed
    /\ sseLast.op = "close"
    /\ clients # <<>>
    /\ \E c \in Range(clients) : Keepalive \in {conn[c].frames[i] : i \in 3..Len(conn[c].frames)}

\* C36: whenever the live set is non-empty the heartbeat timer is armed,
\* over any sequence of addClient, close/error events, broadcast and
\* closeAll: a connection admitted after closeAll() still gets keepalives.
C36_Original ==
    clients # <<>> => heartbeatArmed

\* the step is a call of op that counts as a hub operation
hubStep(op) == sseOps' = sseOps + 1 /\ sseLast'.op = op

\* C18: a heartbeat tick appends one keepalive comment to every live
\* connection whose write does not throw and keeps those live, in their
\* order; the connections whose write throws leave the live set and are
\* written nothing; connections outside the live set are untouched; the
\* write is attempted on every live connection and the tick returns
\* normally.
C18_HeartbeatIsolatesFailures ==
    [][hubStep("sendHeartbeatToAll") =>
          /\ sseLast'.ret = "none"
          /\ sseLast'.attempted = Range(clients)
          /\ clients' = SelectSeq(clients, LAMBDA c : c \notin sseLast'.failed)
          /\ \A c \in Conns :
                 conn'[c] = IF c \in Range(clients) \ sseLast'.failed
                              THEN [conn[c] EXCEPT !.frames = Append(@, Keepalive)]
                              ELSE conn[c]]_vars

\* a heartbeat tick on two live connections, one of which threw: the other
\* one has its keepalive and is the live set
C18_Witness ==
    /\ sseLast.op = "sendHeartbeatToAll"
    /\ Cardinality(sseLast.before) = 2
    /\ Cardinality(sseLast.failed) = 1
    /\ Len(clients) = 1
    /\ conn[clients[1]].frames = <<Headers, Keepalive, Keepalive>>

\* C19: when closeAll() has run, the heartbeat timer is not armed, end() was
\* attempted on every connection that was live, every one of them whose
\* end() did not throw is ended, and the live set is empty.
C19_CloseAllStopsEverything ==
    sseLast.op = "closeAll" =>
        /\ heartbeatInterval = 0
        /\ timers = {}
        /\ sseLast.attempted = sseLast.before
        /\ \A c \in sseLast.before \ sseLast.failed : conn[c].ended
        /\ clients = <<>>
        /\ getClientCount_ret = 0
        /\ sseLast.ret = "none"

\* closeAll() on two live connections, the end() of the first one threw
C19_Witness ==
    /\ sseLast.op = "closeAll"
    /\ sseLast.before = {1, 2}
    /\ sseLast.failed = {1}
    /\ conn[2].ended
    /\ ~conn[1].ended

\* C20: sendToClient(c, event, data) on a live c appends one named-event
\* frame to c, or, if the write throws, removes c from the live set; on a c
\* outside the live set it changes nothing; in every case all other
\* connections, the live set's other members and the timer are as before,
\* and the call returns normally.
C20_SendToClientIsSingleTarget ==
    [][hubStep("sendToClient") =>
          LET c == sseLast'.conn
          IN  /\ sseLast'.ret = "none"
              /\ timers' = timers
              /\ \A d \in Conns \ {c} : conn'[d] = conn[d]
              /\ IF c \notin Range(clients)
                    THEN clients' = clients /\ conn'[c] = conn[c]
                  ELSE IF c \in sseLast'.failed
                    THEN clients' = SetDelete(clients, c) /\ conn'[c] = conn[c]
                  ELSE /\ clients' = clients
                       /\ Len(conn'[c].frames) = Len(conn[c].frames) + 1
                       /\ SubSeq(conn'[c].frames, 1, Len(conn[c].frames)) = conn[c].frames
                       /\ conn'[c].frames[Len(conn'[c].frames)].event \in SendEvents
                       /\ [conn'[c] EXCEPT !.frames = conn[c].frames] = conn[c]]_vars

\* a 'version' event was sent to the second of two live connections, and
\* the first one has only its handshake
C20_Witness ==
    /\ sseLast.op = "sendToClient"
    /\ sseLast.conn = 2
    /\ sseLast.failed = {}
    /\ clients = <<1, 2>>
    /\ conn[1].frames = <<Headers, Keepalive>>
    /\ Len(conn[2].frames) = 3
    /\ conn[2].frames[3].event = "version"

(***************************************************************************)
(* Claims about the server, checked under SpecServer.                      *)
(***************************************************************************)
\* what a response has been written follows the protocol of the endpoint
handshaken(c) ==
    LET fr == conn[c].frames
    IN  \/ fr = <<>>
        \/ fr = <<Rejection>>
        \/ fr = <<Headers>>
        \/ /\ Len(fr) >= 2
           /\ fr[1] = Headers
           /\ fr[2] = Keepalive
           /\ (Len(fr) >= 3 => fr[3].event = "version")
           /\ \A i \in 4..Len(fr) : fr[i].event \in {"update", ":"}

\* C16: every response is written the stream headers, then one keepalive
\* comment, then one 'version' event, and only after it 'update' events and
\* keepalives; a live connection has had its 'version' event; and the
\* 'version' event carries the three counters as they are when the
\* connection is admitted.
C16_HandshakeThenVersion ==
    /\ [](\A c \in Conns : handshaken(c))
    /\ [](\A c \in Range(clients) : Len(conn[c].frames) >= 3)
    /\ [][\A c \in Conns :
            (conn[c].state = "new" /\ Len(conn'[c].frames) >= 3) =>
                conn'[c].frames[3] =
                    message("version", [d \in Domains |-> dataVersions[d]])]_vars

\* a connection admitted after one bump got the counter 1 in its 'version'
\* event and, after a second bump, 2 in an 'update'
C16_Witness ==
    \E c \in Range(clients) :
        /\ Len(conn[c].frames) = 4
        /\ conn[c].frames[3] = message("version", [d \in Domains |-> IF d = "rules" THEN 1 ELSE 0])
        /\ conn[c].frames[4] = message("update", [type |-> "rules", version |-> 2])

\* C25: the broadcast that ends a mutation of domain d writes to every live
\* connection whose write does not throw one 'update' event whose payload is
\* {type: d, version: v}, where v is the counter of d after the bump of that
\* mutation, which is one more than the counter before it.
C25_UpdateCarriesNewVersion ==
    [][hubStep("broadcast") =>
          LET d == dbLog'[mem' + 1].key
              v == dbLog'[mem' + 1].ver[d]
          IN  /\ mem' = mem + 1
              /\ d \in Domains
              /\ v = dbLog[mem + 1].ver[d] + 1
              /\ \A c \in Range(clients) \ sseLast'.failed :
                     conn'[c].frames =
                         Append(conn[c].frames,
                                message("update", [type |-> d, version |-> v]))]_vars

\* two live connections have both been written the update of raffles to
\* version 1 after the 'version' event that gave them 0
C25_Witness ==
    /\ Len(clients) = 2
    /\ \A c \in Range(clients) :
           /\ Len(conn[c].frames) = 4
           /\ conn[c].frames[3].data["raffles"] = 0
           /\ conn[c].frames[4] = message("update", [type |-> "raffles", version |-> 1])

(***************************************************************************)
(* Claims about the request handlers, checked under SpecHandlers.          *)
(***************************************************************************)
\* a debounce timer armed since the server started is pending
scheduled == \E t \in timeouts : t.id = saveTimeout /\ t.id > 1

\* the handler of request r makes the n-th of its last three calls
tailCall(r, n) == reqs[r].steps = n - 1 /\ reqs'[r].steps = n

staleTagged(t) ==
    /\ t.op = "GET"
    /\ t.status = 200
    /\ t.etag >= 1
    /\ Len(genAt[t.d]) >= t.etag
    /\ t.body < genAt[t.d][t.etag]

C24_Original ==
    lastTurn.op = "GET" =>
        /\ lastTurn.token = "current" <=> lastTurn.status = 304
        /\ lastTurn.status = 304 => lastTurn.cache = "none"
        /\ lastTurn.status # 304 =>
               /\ lastTurn.status = 200
               /\ lastTurn.cache \in {"hit", "miss"}
               /\ (lastTurn.cache = "miss" /\ lastTurn.d \in DOMAIN cache) =>
                      /\ cache[lastTurn.d].data = lastTurn.body
                      /\ cache[lastTurn.d].version = lastTurn.etag

\* C26 as stated: a counter never decreases, changes by one at a time, and
\* every request that changed the rows of its domain has bumped the counter
\* of that domain once when it has answered.
C26_Original ==
    /\ \A d \in Domains : \A i \in 1..(Len(dbLog) - 1) :
           dbLog[i + 1].ver[d] \in {dbLog[i].ver[d], dbLog[i].ver[d] + 1}
    /\ \A r \in Reqs :
           (reqs[r].pc = "done" /\ reqs[r].ran >= 1) => reqs[r].bumps = 1

(***************************************************************************)
(* Claims about the observers and the sweep, checked under SpecObserve.    *)
(***************************************************************************)
\* the step is the turn of the callback or handler op
turnOf(op) == lastTurn'.op = op /\ lastTurn'.tick # lastTurn.tick

\* C27: getStats() of the cache, called by the health check or on its own,
\* leaves every entry in place, the expired ones too, and its three counts
\* add up; getClientCount(), isAtCapacity() and getStats() of the hub leave
\* the live set and the heartbeat timer as they were.
C27_ObserversChangeNothing ==
    /\ [](LET st == DataCache_getStats_ret
          IN  /\ st.validEntries + st.expiredEntries = st.totalEntries
              /\ st.totalEntries = Cardinality(DOMAIN cache))
    /\ [][turnOf("health") =>
              /\ cache' = cache
              /\ versions' = versions
              /\ clients' = clients
              /\ timers' = timers
              /\ heartbeatInterval' = heartbeatInterval
              /\ lastTurn'.ret.sseClients = Len(clients)
              /\ lastTurn'.ret.cacheStats.totalEntries = Cardinality(DOMAIN cache)
              /\ lastTurn'.ret.cacheStats.expiredEntries =
                     Cardinality({k \in DOMAIN cache' : now > cache'[k].expiresAt})]_vars
    /\ [][(DataCache_getStats \/ getClientCount \/ isAtCapacity \/ SSEManager_getStats) =>
              UNCHANGED <<cache, versions, clients, timers, heartbeatInterval>>]_vars

\* the health check has counted an expired entry, which is still in the
\* cache, and a live connection, with the heartbeat timer armed
C27_Witness ==
    /\ lastTurn.op = "health"
    /\ lastTurn.ret.cacheStats.expiredEntries >= 1
    /\ lastTurn.ret.cacheStats.validEntries >= 1
    /\ \E k \in DOMAIN cache : now > cache[k].expiresAt
    /\ lastTurn.ret.sseClients >= 1
    /\ Len(clients) = lastTurn.ret.sseClients
    /\ heartbeatArmed

\* C28: the sweep removes every entry with now > expiresAt and no other:
\* every entry with now <= expiresAt is still there afterwards, unchanged,
\* and no entry is added.
C28_SweepRemovesExactlyExpired ==
    [][turnOf("cleanup") =>
          /\ DOMAIN cache' \subseteq DOMAIN cache
          /\ \A k \in DOMAIN cache :
                 IF now > cache[k].expiresAt
                   THEN k \notin DOMAIN cache'
                   ELSE k \in DOMAIN cache' /\ cache'[k] = cache[k]]_vars

\* after a sweep the expired raffles entry is gone and the rules entry,
\* which has not expired, is still there
C28_Witness ==
    /\ lastTurn.op = "cleanup"
    /\ hist["raffles"].state = "set"
    /\ now > hist["raffles"].t0 + 30000
    /\ "raffles" \notin DOMAIN cache
    /\ "rules" \in DOMAIN cache
    /\ now <= cache["rules"].expiresAt

(***************************************************************************)
(* Claims about reads next to a mutation, checked under SpecReads.         *)
(***************************************************************************)
\* the step is a read of d answered in full
fullRead(t, d) == t.op = "GET" /\ t.d = d /\ t.status = 200

\* C33: for each domain, two full read responses that carry the same ETag
\* carry the same payload, whatever mutation handler runs between them,
\* also while PUT /api/raffles/:id awaits its download and when the download
\* fails.  Stated for a full response and the next read of the domain.
C33_Original ==
    [][\A d \in Domains :
          (/\ fullRead(lastTurn, d)
           /\ lastTurn'.tick # lastTurn.tick
           /\ fullRead(lastTurn', d)
           /\ lastTurn'.etag = lastTurn.etag) =>
              lastTurn'.body = lastTurn.body]_vars

(***************************************************************************)
(* Claims about authentication, checked under SpecAuth.                    *)
(***************************************************************************)
\* C38: after a successful change-password for user u, authenticate(u,
\* oldPassword) returns false, also when the pair was accepted earlier and
\* is still held in authCache.
C38_Original ==
    authLast.ret => ~authLast.retired

(***************************************************************************)
(* Claims about a crash and a new start, checked under SpecRestart.        *)
(***************************************************************************)
\* version v of domain d was sent to a client: in an 'update' event, or in
\* the 'version' event of its handshake
sentTo(c, d, v) ==
    \E i \in 1..Len(conn[c].frames) :
        LET f == conn[c].frames[i]
        IN  \/ f = message("update", [type |-> d, version |-> v])
            \/ f.event = "version" /\ f.data[d] = v

\* C34: across a crash and a new start the versions clients see never go
\* back: a version of a domain that was sent to a client is never issued
\* again for another state of the domain, so the version a mutation bumps
\* the counter to has not been sent to any client before.
C34_Original ==
    [][\A d \in Domains :
          (dbLast' = "bumpVersion" /\ dataVersions'[d] # dataVersions[d]) =>
              \A c \in Conns : ~sentTo(c, d, dataVersions'[d])]_vars

====
